---- MODULE Spec2Model ----
(***************************************************************************)
(* Model of the serdeval validator package: content-based and filename-   *)
(* based format detection, the validator registry and auto-validation.    *)
(* Text is a sequence of one-character strings, so that the string         *)
(* operations of the detector are computed character by character.         *)
(***************************************************************************)
EXTENDS Integers, Sequences, FiniteSets, TLC

(***************************************************************************)
(* Go's strings package, over sequences of characters.                     *)
(***************************************************************************)
\* A character is a string of one character for the printable ASCII
\* characters and "\t", "\n", "\r", "\f"; any other code point is written
\* "U+" and its hexadecimal digits, four at least.

\* the ASCII letters, as the source has them in its literals
lowerLetters == <<"a","b","c","d","e","f","g","h","i","j","k","l","m","n","o","p","q","r","s","t","u","v","w","x","y","z">>
upperLetters == <<"A","B","C","D","E","F","G","H","I","J","K","L","M","N","O","P","Q","R","S","T","U","V","W","X","Y","Z">>

\* the grave accent, which cannot be written inside a TLA+ string
Backtick == "U+0060"

\* unicode.IsSpace: the ASCII white space with the vertical tab, NEL, the
\* no-break space and the characters of category Z
spaceSet ==
    { " ", "\t", "\n", "\r", "\f", "U+000B", "U+0085", "U+00A0", "U+1680",
      "U+2000", "U+2001", "U+2002", "U+2003", "U+2004", "U+2005", "U+2006",
      "U+2007", "U+2008", "U+2009", "U+200A", "U+2028", "U+2029", "U+202F",
      "U+205F", "U+3000" }

\* the characters strings.TrimSpace trims
IsSpace(c) == c \in spaceSet

\* unicode.ToUpper (Unicode 15.0.0): the code points outside ASCII that have
\* an upper case, in code point order ...
toUpperFrom ==
    << "U+00B5", "U+00E0", "U+00E1", "U+00E2", "U+00E3", "U+00E4", "U+00E5", "U+00E6",
       "U+00E7", "U+00E8", "U+00E9", "U+00EA", "U+00EB", "U+00EC", "U+00ED", "U+00EE",
       "U+00EF", "U+00F0", "U+00F1", "U+00F2", "U+00F3", "U+00F4", "U+00F5", "U+00F6",
       "U+00F8", "U+00F9", "U+00FA", "U+00FB", "U+00FC", "U+00FD", "U+00FE", "U+00FF",
       "U+0101", "U+0103", "U+0105", "U+0107", "U+0109", "U+010B", "U+010D", "U+010F",
       "U+0111", "U+0113", "U+0115", "U+0117", "U+0119", "U+011B", "U+011D", "U+011F",
       "U+0121", "U+0123", "U+0125", "U+0127", "U+0129", "U+012B", "U+012D", "U+012F",
       "U+0131", "U+0133", "U+0135", "U+0137", "U+013A", "U+013C", "U+013E", "U+0140",
       "U+0142", "U+0144", "U+0146", "U+0148", "U+014B", "U+014D", "U+014F", "U+0151",
       "U+0153", "U+0155", "U+0157", "U+0159", "U+015B", "U+015D", "U+015F", "U+0161",
       "U+0163", "U+0165", "U+0167", "U+0169", "U+016B", "U+016D", "U+016F", "U+0171",
       "U+0173", "U+0175", "U+0177", "U+017A", "U+017C", "U+017E", "U+017F", "U+0180",
       "U+0183", "U+0185", "U+0188", "U+018C", "U+0192", "U+0195", "U+0199", "U+019A",
       "U+019E", "U+01A1", "U+01A3", "U+01A5", "U+01A8", "U+01AD", "U+01B0", "U+01B4",
       "U+01B6", "U+01B9", "U+01BD", "U+01BF", "U+01C5", "U+01C6", "U+01C8", "U+01C9",
       "U+01CB", "U+01CC", "U+01CE", "U+01D0", "U+01D2", "U+01D4", "U+01D6", "U+01D8",
       "U+01DA", "U+01DC", "U+01DD", "U+01DF", "U+01E1", "U+01E3", "U+01E5", "U+01E7",
       "U+01E9", "U+01EB", "U+01ED", "U+01EF", "U+01F2", "U+01F3", "U+01F5", "U+01F9",
       "U+01FB", "U+01FD", "U+01FF", "U+0201", "U+0203", "U+0205", "U+0207", "U+0209",
       "U+020B", "U+020D", "U+020F", "U+0211", "U+0213", "U+0215", "U+0217", "U+0219",
       "U+021B", "U+021D", "U+021F", "U+0223", "U+0225", "U+0227", "U+0229", "U+022B",
       "U+022D", "U+022F", "U+0231", "U+0233", "U+023C", "U+023F", "U+0240", "U+0242",
       "U+0247", "U+0249", "U+024B", "U+024D", "U+024F", "U+0250", "U+0251", "U+0252",
       "U+0253", "U+0254", "U+0256", "U+0257", "U+0259", "U+025B", "U+025C", "U+0260",
       "U+0261", "U+0263", "U+0265", "U+0266", "U+0268", "U+0269", "U+026A", "U+026B",
       "U+026C", "U+026F", "U+0271", "U+0272", "U+0275", "U+027D", "U+0280", "U+0282",
       "U+0283", "U+0287", "U+0288", "U+0289", "U+028A", "U+028B", "U+028C", "U+0292",
       "U+029D", "U+029E", "U+0345", "U+0371", "U+0373", "U+0377", "U+037B", "U+037C",
       "U+037D", "U+03AC", "U+03AD", "U+03AE", "U+03AF", "U+03B1", "U+03B2", "U+03B3",
       "U+03B4", "U+03B5", "U+03B6", "U+03B7", "U+03B8", "U+03B9", "U+03BA", "U+03BB",
       "U+03BC", "U+03BD", "U+03BE", "U+03BF", "U+03C0", "U+03C1", "U+03C2", "U+03C3",
       "U+03C4", "U+03C5", "U+03C6", "U+03C7", "U+03C8", "U+03C9", "U+03CA", "U+03CB",
       "U+03CC", "U+03CD", "U+03CE", "U+03D0", "U+03D1", "U+03D5", "U+03D6", "U+03D7",
       "U+03D9", "U+03DB", "U+03DD", "U+03DF", "U+03E1", "U+03E3", "U+03E5", "U+03E7",
       "U+03E9", "U+03EB", "U+03ED", "U+03EF", "U+03F0", "U+03F1", "U+03F2", "U+03F3",
       "U+03F5", "U+03F8", "U+03FB", "U+0430", "U+0431", "U+0432", "U+0433", "U+0434",
       "U+0435", "U+0436", "U+0437", "U+0438", "U+0439", "U+043A", "U+043B", "U+043C",
       "U+043D", "U+043E", "U+043F", "U+0440", "U+0441", "U+0442", "U+0443", "U+0444",
       "U+0445", "U+0446", "U+0447", "U+0448", "U+0449", "U+044A", "U+044B", "U+044C",
       "U+044D", "U+044E", "U+044F", "U+0450", "U+0451", "U+0452", "U+0453", "U+0454",
       "U+0455", "U+0456", "U+0457", "U+0458", "U+0459", "U+045A", "U+045B", "U+045C",
       "U+045D", "U+045E", "U+045F", "U+0461", "U+0463", "U+0465", "U+0467", "U+0469",
       "U+046B", "U+046D", "U+046F", "U+0471", "U+0473", "U+0475", "U+0477", "U+0479",
       "U+047B", "U+047D", "U+047F", "U+0481", "U+048B", "U+048D", "U+048F", "U+0491",
       "U+0493", "U+0495", "U+0497", "U+0499", "U+049B", "U+049D", "U+049F", "U+04A1",
       "U+04A3", "U+04A5", "U+04A7", "U+04A9", "U+04AB", "U+04AD", "U+04AF", "U+04B1",
       "U+04B3", "U+04B5", "U+04B7", "U+04B9", "U+04BB", "U+04BD", "U+04BF", "U+04C2",
       "U+04C4", "U+04C6", "U+04C8", "U+04CA", "U+04CC", "U+04CE", "U+04CF", "U+04D1",
       "U+04D3", "U+04D5", "U+04D7", "U+04D9", "U+04DB", "U+04DD", "U+04DF", "U+04E1",
       "U+04E3", "U+04E5", "U+04E7", "U+04E9", "U+04EB", "U+04ED", "U+04EF", "U+04F1",
       "U+04F3", "U+04F5", "U+04F7", "U+04F9", "U+04FB", "U+04FD", "U+04FF", "U+0501",
       "U+0503", "U+0505", "U+0507", "U+0509", "U+050B", "U+050D", "U+050F", "U+0511",
       "U+0513", "U+0515", "U+0517", "U+0519", "U+051B", "U+051D", "U+051F", "U+0521",
       "U+0523", "U+0525", "U+0527", "U+0529", "U+052B", "U+052D", "U+052F", "U+0561",
       "U+0562", "U+0563", "U+0564", "U+0565", "U+0566", "U+0567", "U+0568", "U+0569",
       "U+056A", "U+056B", "U+056C", "U+056D", "U+056E", "U+056F", "U+0570", "U+0571",
       "U+0572", "U+0573", "U+0574", "U+0575", "U+0576", "U+0577", "U+0578", "U+0579",
       "U+057A", "U+057B", "U+057C", "U+057D", "U+057E", "U+057F", "U+0580", "U+0581",
       "U+0582", "U+0583", "U+0584", "U+0585", "U+0586", "U+10D0", "U+10D1", "U+10D2",
       "U+10D3", "U+10D4", "U+10D5", "U+10D6", "U+10D7", "U+10D8", "U+10D9", "U+10DA",
       "U+10DB", "U+10DC", "U+10DD", "U+10DE", "U+10DF", "U+10E0", "U+10E1", "U+10E2",
       "U+10E3", "U+10E4", "U+10E5", "U+10E6", "U+10E7", "U+10E8", "U+10E9", "U+10EA",
       "U+10EB", "U+10EC", "U+10ED", "U+10EE", "U+10EF", "U+10F0", "U+10F1", "U+10F2",
       "U+10F3", "U+10F4", "U+10F5", "U+10F6", "U+10F7", "U+10F8", "U+10F9", "U+10FA",
       "U+10FD", "U+10FE", "U+10FF", "U+13F8", "U+13F9", "U+13FA", "U+13FB", "U+13FC",
       "U+13FD", "U+1C80", "U+1C81", "U+1C82", "U+1C83", "U+1C84", "U+1C85", "U+1C86",
       "U+1C87", "U+1C88", "U+1D79", "U+1D7D", "U+1D8E", "U+1E01", "U+1E03", "U+1E05",
       "U+1E07", "U+1E09", "U+1E0B", "U+1E0D", "U+1E0F", "U+1E11", "U+1E13", "U+1E15",
       "U+1E17", "U+1E19", "U+1E1B", "U+1E1D", "U+1E1F", "U+1E21", "U+1E23", "U+1E25",
       "U+1E27", "U+1E29", "U+1E2B", "U+1E2D", "U+1E2F", "U+1E31", "U+1E33", "U+1E35",
       "U+1E37", "U+1E39", "U+1E3B", "U+1E3D", "U+1E3F", "U+1E41", "U+1E43", "U+1E45",
       "U+1E47", "U+1E49", "U+1E4B", "U+1E4D", "U+1E4F", "U+1E51", "U+1E53", "U+1E55",
       "U+1E57", "U+1E59", "U+1E5B", "U+1E5D", "U+1E5F", "U+1E61", "U+1E63", "U+1E65",
       "U+1E67", "U+1E69", "U+1E6B", "U+1E6D", "U+1E6F", "U+1E71", "U+1E73", "U+1E75",
       "U+1E77", "U+1E79", "U+1E7B", "U+1E7D", "U+1E7F", "U+1E81", "U+1E83", "U+1E85",
       "U+1E87", "U+1E89", "U+1E8B", "U+1E8D", "U+1E8F", "U+1E91", "U+1E93", "U+1E95",
       "U+1E9B", "U+1EA1", "U+1EA3", "U+1EA5", "U+1EA7", "U+1EA9", "U+1EAB", "U+1EAD",
       "U+1EAF", "U+1EB1", "U+1EB3", "U+1EB5", "U+1EB7", "U+1EB9", "U+1EBB", "U+1EBD",
       "U+1EBF", "U+1EC1", "U+1EC3", "U+1EC5", "U+1EC7", "U+1EC9", "U+1ECB", "U+1ECD",
       "U+1ECF", "U+1ED1", "U+1ED3", "U+1ED5", "U+1ED7", "U+1ED9", "U+1EDB", "U+1EDD",
       "U+1EDF", "U+1EE1", "U+1EE3", "U+1EE5", "U+1EE7", "U+1EE9", "U+1EEB", "U+1EED",
       "U+1EEF", "U+1EF1", "U+1EF3", "U+1EF5", "U+1EF7", "U+1EF9", "U+1EFB", "U+1EFD",
       "U+1EFF", "U+1F00", "U+1F01", "U+1F02", "U+1F03", "U+1F04", "U+1F05", "U+1F06",
       "U+1F07", "U+1F10", "U+1F11", "U+1F12", "U+1F13", "U+1F14", "U+1F15", "U+1F20",
       "U+1F21", "U+1F22", "U+1F23", "U+1F24", "U+1F25", "U+1F26", "U+1F27", "U+1F30",
       "U+1F31", "U+1F32", "U+1F33", "U+1F34", "U+1F35", "U+1F36", "U+1F37", "U+1F40",
       "U+1F41", "U+1F42", "U+1F43", "U+1F44", "U+1F45", "U+1F51", "U+1F53", "U+1F55",
       "U+1F57", "U+1F60", "U+1F61", "U+1F62", "U+1F63", "U+1F64", "U+1F65", "U+1F66",
       "U+1F67", "U+1F70", "U+1F71", "U+1F72", "U+1F73", "U+1F74", "U+1F75", "U+1F76",
       "U+1F77", "U+1F78", "U+1F79", "U+1F7A", "U+1F7B", "U+1F7C", "U+1F7D", "U+1F80",
       "U+1F81", "U+1F82", "U+1F83", "U+1F84", "U+1F85", "U+1F86", "U+1F87", "U+1F90",
       "U+1F91", "U+1F92", "U+1F93", "U+1F94", "U+1F95", "U+1F96", "U+1F97", "U+1FA0",
       "U+1FA1", "U+1FA2", "U+1FA3", "U+1FA4", "U+1FA5", "U+1FA6", "U+1FA7", "U+1FB0",
       "U+1FB1", "U+1FB3", "U+1FBE", "U+1FC3", "U+1FD0", "U+1FD1", "U+1FE0", "U+1FE1",
       "U+1FE5", "U+1FF3", "U+214E", "U+2170", "U+2171", "U+2172", "U+2173", "U+2174",
       "U+2175", "U+2176", "U+2177", "U+2178", "U+2179", "U+217A", "U+217B", "U+217C",
       "U+217D", "U+217E", "U+217F", "U+2184", "U+24D0", "U+24D1", "U+24D2", "U+24D3",
       "U+24D4", "U+24D5", "U+24D6", "U+24D7", "U+24D8", "U+24D9", "U+24DA", "U+24DB",
       "U+24DC", "U+24DD", "U+24DE", "U+24DF", "U+24E0", "U+24E1", "U+24E2", "U+24E3",
       "U+24E4", "U+24E5", "U+24E6", "U+24E7", "U+24E8", "U+24E9", "U+2C30", "U+2C31",
       "U+2C32", "U+2C33", "U+2C34", "U+2C35", "U+2C36", "U+2C37", "U+2C38", "U+2C39",
       "U+2C3A", "U+2C3B", "U+2C3C", "U+2C3D", "U+2C3E", "U+2C3F", "U+2C40", "U+2C41",
       "U+2C42", "U+2C43", "U+2C44", "U+2C45", "U+2C46", "U+2C47", "U+2C48", "U+2C49",
       "U+2C4A", "U+2C4B", "U+2C4C", "U+2C4D", "U+2C4E", "U+2C4F", "U+2C50", "U+2C51",
       "U+2C52", "U+2C53", "U+2C54", "U+2C55", "U+2C56", "U+2C57", "U+2C58", "U+2C59",
       "U+2C5A", "U+2C5B", "U+2C5C", "U+2C5D", "U+2C5E", "U+2C5F", "U+2C61", "U+2C65",
       "U+2C66", "U+2C68", "U+2C6A", "U+2C6C", "U+2C73", "U+2C76", "U+2C81", "U+2C83",
       "U+2C85", "U+2C87", "U+2C89", "U+2C8B", "U+2C8D", "U+2C8F", "U+2C91", "U+2C93",
       "U+2C95", "U+2C97", "U+2C99", "U+2C9B", "U+2C9D", "U+2C9F", "U+2CA1", "U+2CA3",
       "U+2CA5", "U+2CA7", "U+2CA9", "U+2CAB", "U+2CAD", "U+2CAF", "U+2CB1", "U+2CB3",
       "U+2CB5", "U+2CB7", "U+2CB9", "U+2CBB", "U+2CBD", "U+2CBF", "U+2CC1", "U+2CC3",
       "U+2CC5", "U+2CC7", "U+2CC9", "U+2CCB", "U+2CCD", "U+2CCF", "U+2CD1", "U+2CD3",
       "U+2CD5", "U+2CD7", "U+2CD9", "U+2CDB", "U+2CDD", "U+2CDF", "U+2CE1", "U+2CE3",
       "U+2CEC", "U+2CEE", "U+2CF3", "U+2D00", "U+2D01", "U+2D02", "U+2D03", "U+2D04",
       "U+2D05", "U+2D06", "U+2D07", "U+2D08", "U+2D09", "U+2D0A", "U+2D0B", "U+2D0C",
       "U+2D0D", "U+2D0E", "U+2D0F", "U+2D10", "U+2D11", "U+2D12", "U+2D13", "U+2D14",
       "U+2D15", "U+2D16", "U+2D17", "U+2D18", "U+2D19", "U+2D1A", "U+2D1B", "U+2D1C",
       "U+2D1D", "U+2D1E", "U+2D1F", "U+2D20", "U+2D21", "U+2D22", "U+2D23", "U+2D24",
       "U+2D25", "U+2D27", "U+2D2D", "U+A641", "U+A643", "U+A645", "U+A647", "U+A649",
       "U+A64B", "U+A64D", "U+A64F", "U+A651", "U+A653", "U+A655", "U+A657", "U+A659",
       "U+A65B", "U+A65D", "U+A65F", "U+A661", "U+A663", "U+A665", "U+A667", "U+A669",
       "U+A66B", "U+A66D", "U+A681", "U+A683", "U+A685", "U+A687", "U+A689", "U+A68B",
       "U+A68D", "U+A68F", "U+A691", "U+A693", "U+A695", "U+A697", "U+A699", "U+A69B",
       "U+A723", "U+A725", "U+A727", "U+A729", "U+A72B", "U+A72D", "U+A72F", "U+A733",
       "U+A735", "U+A737", "U+A739", "U+A73B", "U+A73D", "U+A73F", "U+A741", "U+A743",
       "U+A745", "U+A747", "U+A749", "U+A74B", "U+A74D", "U+A74F", "U+A751", "U+A753",
       "U+A755", "U+A757", "U+A759", "U+A75B", "U+A75D", "U+A75F", "U+A761", "U+A763",
       "U+A765", "U+A767", "U+A769", "U+A76B", "U+A76D", "U+A76F", "U+A77A", "U+A77C",
       "U+A77F", "U+A781", "U+A783", "U+A785", "U+A787", "U+A78C", "U+A791", "U+A793",
       "U+A794", "U+A797", "U+A799", "U+A79B", "U+A79D", "U+A79F", "U+A7A1", "U+A7A3",
       "U+A7A5", "U+A7A7", "U+A7A9", "U+A7B5", "U+A7B7", "U+A7B9", "U+A7BB", "U+A7BD",
       "U+A7BF", "U+A7C1", "U+A7C3", "U+A7C8", "U+A7CA", "U+A7D1", "U+A7D7", "U+A7D9",
       "U+A7F6", "U+AB53", "U+AB70", "U+AB71", "U+AB72", "U+AB73", "U+AB74", "U+AB75",
       "U+AB76", "U+AB77", "U+AB78", "U+AB79", "U+AB7A", "U+AB7B", "U+AB7C", "U+AB7D",
       "U+AB7E", "U+AB7F", "U+AB80", "U+AB81", "U+AB82", "U+AB83", "U+AB84", "U+AB85",
       "U+AB86", "U+AB87", "U+AB88", "U+AB89", "U+AB8A", "U+AB8B", "U+AB8C", "U+AB8D",
       "U+AB8E", "U+AB8F", "U+AB90", "U+AB91", "U+AB92", "U+AB93", "U+AB94", "U+AB95",
       "U+AB96", "U+AB97", "U+AB98", "U+AB99", "U+AB9A", "U+AB9B", "U+AB9C", "U+AB9D",
       "U+AB9E", "U+AB9F", "U+ABA0", "U+ABA1", "U+ABA2", "U+ABA3", "U+ABA4", "U+ABA5",
       "U+ABA6", "U+ABA7", "U+ABA8", "U+ABA9", "U+ABAA", "U+ABAB", "U+ABAC", "U+ABAD",
       "U+ABAE", "U+ABAF", "U+ABB0", "U+ABB1", "U+ABB2", "U+ABB3", "U+ABB4", "U+ABB5",
       "U+ABB6", "U+ABB7", "U+ABB8", "U+ABB9", "U+ABBA", "U+ABBB", "U+ABBC", "U+ABBD",
       "U+ABBE", "U+ABBF", "U+FF41", "U+FF42", "U+FF43", "U+FF44", "U+FF45", "U+FF46",
       "U+FF47", "U+FF48", "U+FF49", "U+FF4A", "U+FF4B", "U+FF4C", "U+FF4D", "U+FF4E",
       "U+FF4F", "U+FF50", "U+FF51", "U+FF52", "U+FF53", "U+FF54", "U+FF55", "U+FF56",
       "U+FF57", "U+FF58", "U+FF59", "U+FF5A", "U+10428", "U+10429", "U+1042A", "U+1042B",
       "U+1042C", "U+1042D", "U+1042E", "U+1042F", "U+10430", "U+10431", "U+10432", "U+10433",
       "U+10434", "U+10435", "U+10436", "U+10437", "U+10438", "U+10439", "U+1043A", "U+1043B",
       "U+1043C", "U+1043D", "U+1043E", "U+1043F", "U+10440", "U+10441", "U+10442", "U+10443",
       "U+10444", "U+10445", "U+10446", "U+10447", "U+10448", "U+10449", "U+1044A", "U+1044B",
       "U+1044C", "U+1044D", "U+1044E", "U+1044F", "U+104D8", "U+104D9", "U+104DA", "U+104DB",
       "U+104DC", "U+104DD", "U+104DE", "U+104DF", "U+104E0", "U+104E1", "U+104E2", "U+104E3",
       "U+104E4", "U+104E5", "U+104E6", "U+104E7", "U+104E8", "U+104E9", "U+104EA", "U+104EB",
       "U+104EC", "U+104ED", "U+104EE", "U+104EF", "U+104F0", "U+104F1", "U+104F2", "U+104F3",
       "U+104F4", "U+104F5", "U+104F6", "U+104F7", "U+104F8", "U+104F9", "U+104FA", "U+104FB",
       "U+10597", "U+10598", "U+10599", "U+1059A", "U+1059B", "U+1059C", "U+1059D", "U+1059E",
       "U+1059F", "U+105A0", "U+105A1", "U+105A3", "U+105A4", "U+105A5", "U+105A6", "U+105A7",
       "U+105A8", "U+105A9", "U+105AA", "U+105AB", "U+105AC", "U+105AD", "U+105AE", "U+105AF",
       "U+105B0", "U+105B1", "U+105B3", "U+105B4", "U+105B5", "U+105B6", "U+105B7", "U+105B8",
       "U+105B9", "U+105BB", "U+105BC", "U+10CC0", "U+10CC1", "U+10CC2", "U+10CC3", "U+10CC4",
       "U+10CC5", "U+10CC6", "U+10CC7", "U+10CC8", "U+10CC9", "U+10CCA", "U+10CCB", "U+10CCC",
       "U+10CCD", "U+10CCE", "U+10CCF", "U+10CD0", "U+10CD1", "U+10CD2", "U+10CD3", "U+10CD4",
       "U+10CD5", "U+10CD6", "U+10CD7", "U+10CD8", "U+10CD9", "U+10CDA", "U+10CDB", "U+10CDC",
       "U+10CDD", "U+10CDE", "U+10CDF", "U+10CE0", "U+10CE1", "U+10CE2", "U+10CE3", "U+10CE4",
       "U+10CE5", "U+10CE6", "U+10CE7", "U+10CE8", "U+10CE9", "U+10CEA", "U+10CEB", "U+10CEC",
       "U+10CED", "U+10CEE", "U+10CEF", "U+10CF0", "U+10CF1", "U+10CF2", "U+118C0", "U+118C1",
       "U+118C2", "U+118C3", "U+118C4", "U+118C5", "U+118C6", "U+118C7", "U+118C8", "U+118C9",
       "U+118CA", "U+118CB", "U+118CC", "U+118CD", "U+118CE", "U+118CF", "U+118D0", "U+118D1",
       "U+118D2", "U+118D3", "U+118D4", "U+118D5", "U+118D6", "U+118D7", "U+118D8", "U+118D9",
       "U+118DA", "U+118DB", "U+118DC", "U+118DD", "U+118DE", "U+118DF", "U+16E60", "U+16E61",
       "U+16E62", "U+16E63", "U+16E64", "U+16E65", "U+16E66", "U+16E67", "U+16E68", "U+16E69",
       "U+16E6A", "U+16E6B", "U+16E6C", "U+16E6D", "U+16E6E", "U+16E6F", "U+16E70", "U+16E71",
       "U+16E72", "U+16E73", "U+16E74", "U+16E75", "U+16E76", "U+16E77", "U+16E78", "U+16E79",
       "U+16E7A", "U+16E7B", "U+16E7C", "U+16E7D", "U+16E7E", "U+16E7F", "U+1E922", "U+1E923",
       "U+1E924", "U+1E925", "U+1E926", "U+1E927", "U+1E928", "U+1E929", "U+1E92A", "U+1E92B",
       "U+1E92C", "U+1E92D", "U+1E92E", "U+1E92F", "U+1E930", "U+1E931", "U+1E932", "U+1E933",
       "U+1E934", "U+1E935", "U+1E936", "U+1E937", "U+1E938", "U+1E939", "U+1E93A", "U+1E93B",
       "U+1E93C", "U+1E93D", "U+1E93E", "U+1E93F", "U+1E940", "U+1E941", "U+1E942", "U+1E943" >>

\* ... and the upper case of each, at the same position
toUpperTo ==
    << "U+039C", "U+00C0", "U+00C1", "U+00C2", "U+00C3", "U+00C4", "U+00C5", "U+00C6",
       "U+00C7", "U+00C8", "U+00C9", "U+00CA", "U+00CB", "U+00CC", "U+00CD", "U+00CE",
       "U+00CF", "U+00D0", "U+00D1", "U+00D2", "U+00D3", "U+00D4", "U+00D5", "U+00D6",
       "U+00D8", "U+00D9", "U+00DA", "U+00DB", "U+00DC", "U+00DD", "U+00DE", "U+0178",
       "U+0100", "U+0102", "U+0104", "U+0106", "U+0108", "U+010A", "U+010C", "U+010E",
       "U+0110", "U+0112", "U+0114", "U+0116", "U+0118", "U+011A", "U+011C", "U+011E",
       "U+0120", "U+0122", "U+0124", "U+0126", "U+0128", "U+012A", "U+012C", "U+012E",
       "I", "U+0132", "U+0134", "U+0136", "U+0139", "U+013B", "U+013D", "U+013F",
       "U+0141", "U+0143", "U+0145", "U+0147", "U+014A", "U+014C", "U+014E", "U+0150",
       "U+0152", "U+0154", "U+0156", "U+0158", "U+015A", "U+015C", "U+015E", "U+0160",
       "U+0162", "U+0164", "U+0166", "U+0168", "U+016A", "U+016C", "U+016E", "U+0170",
       "U+0172", "U+0174", "U+0176", "U+0179", "U+017B", "U+017D", "S", "U+0243",
       "U+0182", "U+0184", "U+0187", "U+018B", "U+0191", "U+01F6", "U+0198", "U+023D",
       "U+0220", "U+01A0", "U+01A2", "U+01A4", "U+01A7", "U+01AC", "U+01AF", "U+01B3",
       "U+01B5", "U+01B8", "U+01BC", "U+01F7", "U+01C4", "U+01C4", "U+01C7", "U+01C7",
       "U+01CA", "U+01CA", "U+01CD", "U+01CF", "U+01D1", "U+01D3", "U+01D5", "U+01D7",
       "U+01D9", "U+01DB", "U+018E", "U+01DE", "U+01E0", "U+01E2", "U+01E4", "U+01E6",
       "U+01E8", "U+01EA", "U+01EC", "U+01EE", "U+01F1", "U+01F1", "U+01F4", "U+01F8",
       "U+01FA", "U+01FC", "U+01FE", "U+0200", "U+0202", "U+0204", "U+0206", "U+0208",
       "U+020A", "U+020C", "U+020E", "U+0210", "U+0212", "U+0214", "U+0216", "U+0218",
       "U+021A", "U+021C", "U+021E", "U+0222", "U+0224", "U+0226", "U+0228", "U+022A",
       "U+022C", "U+022E", "U+0230", "U+0232", "U+023B", "U+2C7E", "U+2C7F", "U+0241",
       "U+0246", "U+0248", "U+024A", "U+024C", "U+024E", "U+2C6F", "U+2C6D", "U+2C70",
       "U+0181", "U+0186", "U+0189", "U+018A", "U+018F", "U+0190", "U+A7AB", "U+0193",
       "U+A7AC", "U+0194", "U+A78D", "U+A7AA", "U+0197", "U+0196", "U+A7AE", "U+2C62",
       "U+A7AD", "U+019C", "U+2C6E", "U+019D", "U+019F", "U+2C64", "U+01A6", "U+A7C5",
       "U+01A9", "U+A7B1", "U+01AE", "U+0244", "U+01B1", "U+01B2", "U+0245", "U+01B7",
       "U+A7B2", "U+A7B0", "U+0399", "U+0370", "U+0372", "U+0376", "U+03FD", "U+03FE",
       "U+03FF", "U+0386", "U+0388", "U+0389", "U+038A", "U+0391", "U+0392", "U+0393",
       "U+0394", "U+0395", "U+0396", "U+0397", "U+0398", "U+0399", "U+039A", "U+039B",
       "U+039C", "U+039D", "U+039E", "U+039F", "U+03A0", "U+03A1", "U+03A3", "U+03A3",
       "U+03A4", "U+03A5", "U+03A6", "U+03A7", "U+03A8", "U+03A9", "U+03AA", "U+03AB",
       "U+038C", "U+038E", "U+038F", "U+0392", "U+0398", "U+03A6", "U+03A0", "U+03CF",
       "U+03D8", "U+03DA", "U+03DC", "U+03DE", "U+03E0", "U+03E2", "U+03E4", "U+03E6",
       "U+03E8", "U+03EA", "U+03EC", "U+03EE", "U+039A", "U+03A1", "U+03F9", "U+037F",
       "U+0395", "U+03F7", "U+03FA", "U+0410", "U+0411", "U+0412", "U+0413", "U+0414",
       "U+0415", "U+0416", "U+0417", "U+0418", "U+0419", "U+041A", "U+041B", "U+041C",
       "U+041D", "U+041E", "U+041F", "U+0420", "U+0421", "U+0422", "U+0423", "U+0424",
       "U+0425", "U+0426", "U+0427", "U+0428", "U+0429", "U+042A", "U+042B", "U+042C",
       "U+042D", "U+042E", "U+042F", "U+0400", "U+0401", "U+0402", "U+0403", "U+0404",
       "U+0405", "U+0406", "U+0407", "U+0408", "U+0409", "U+040A", "U+040B", "U+040C",
       "U+040D", "U+040E", "U+040F", "U+0460", "U+0462", "U+0464", "U+0466", "U+0468",
       "U+046A", "U+046C", "U+046E", "U+0470", "U+0472", "U+0474", "U+0476", "U+0478",
       "U+047A", "U+047C", "U+047E", "U+0480", "U+048A", "U+048C", "U+048E", "U+0490",
       "U+0492", "U+0494", "U+0496", "U+0498", "U+049A", "U+049C", "U+049E", "U+04A0",
       "U+04A2", "U+04A4", "U+04A6", "U+04A8", "U+04AA", "U+04AC", "U+04AE", "U+04B0",
       "U+04B2", "U+04B4", "U+04B6", "U+04B8", "U+04BA", "U+04BC", "U+04BE", "U+04C1",
       "U+04C3", "U+04C5", "U+04C7", "U+04C9", "U+04CB", "U+04CD", "U+04C0", "U+04D0",
       "U+04D2", "U+04D4", "U+04D6", "U+04D8", "U+04DA", "U+04DC", "U+04DE", "U+04E0",
       "U+04E2", "U+04E4", "U+04E6", "U+04E8", "U+04EA", "U+04EC", "U+04EE", "U+04F0",
       "U+04F2", "U+04F4", "U+04F6", "U+04F8", "U+04FA", "U+04FC", "U+04FE", "U+0500",
       "U+0502", "U+0504", "U+0506", "U+0508", "U+050A", "U+050C", "U+050E", "U+0510",
       "U+0512", "U+0514", "U+0516", "U+0518", "U+051A", "U+051C", "U+051E", "U+0520",
       "U+0522", "U+0524", "U+0526", "U+0528", "U+052A", "U+052C", "U+052E", "U+0531",
       "U+0532", "U+0533", "U+0534", "U+0535", "U+0536", "U+0537", "U+0538", "U+0539",
       "U+053A", "U+053B", "U+053C", "U+053D", "U+053E", "U+053F", "U+0540", "U+0541",
       "U+0542", "U+0543", "U+0544", "U+0545", "U+0546", "U+0547", "U+0548", "U+0549",
       "U+054A", "U+054B", "U+054C", "U+054D", "U+054E", "U+054F", "U+0550", "U+0551",
       "U+0552", "U+0553", "U+0554", "U+0555", "U+0556", "U+1C90", "U+1C91", "U+1C92",
       "U+1C93", "U+1C94", "U+1C95", "U+1C96", "U+1C97", "U+1C98", "U+1C99", "U+1C9A",
       "U+1C9B", "U+1C9C", "U+1C9D", "U+1C9E", "U+1C9F", "U+1CA0", "U+1CA1", "U+1CA2",
       "U+1CA3", "U+1CA4", "U+1CA5", "U+1CA6", "U+1CA7", "U+1CA8", "U+1CA9", "U+1CAA",
       "U+1CAB", "U+1CAC", "U+1CAD", "U+1CAE", "U+1CAF", "U+1CB0", "U+1CB1", "U+1CB2",
       "U+1CB3", "U+1CB4", "U+1CB5", "U+1CB6", "U+1CB7", "U+1CB8", "U+1CB9", "U+1CBA",
       "U+1CBD", "U+1CBE", "U+1CBF", "U+13F0", "U+13F1", "U+13F2", "U+13F3", "U+13F4",
       "U+13F5", "U+0412", "U+0414", "U+041E", "U+0421", "U+0422", "U+0422", "U+042A",
       "U+0462", "U+A64A", "U+A77D", "U+2C63", "U+A7C6", "U+1E00", "U+1E02", "U+1E04",
       "U+1E06", "U+1E08", "U+1E0A", "U+1E0C", "U+1E0E", "U+1E10", "U+1E12", "U+1E14",
       "U+1E16", "U+1E18", "U+1E1A", "U+1E1C", "U+1E1E", "U+1E20", "U+1E22", "U+1E24",
       "U+1E26", "U+1E28", "U+1E2A", "U+1E2C", "U+1E2E", "U+1E30", "U+1E32", "U+1E34",
       "U+1E36", "U+1E38", "U+1E3A", "U+1E3C", "U+1E3E", "U+1E40", "U+1E42", "U+1E44",
       "U+1E46", "U+1E48", "U+1E4A", "U+1E4C", "U+1E4E", "U+1E50", "U+1E52", "U+1E54",
       "U+1E56", "U+1E58", "U+1E5A", "U+1E5C", "U+1E5E", "U+1E60", "U+1E62", "U+1E64",
       "U+1E66", "U+1E68", "U+1E6A", "U+1E6C", "U+1E6E", "U+1E70", "U+1E72", "U+1E74",
       "U+1E76", "U+1E78", "U+1E7A", "U+1E7C", "U+1E7E", "U+1E80", "U+1E82", "U+1E84",
       "U+1E86", "U+1E88", "U+1E8A", "U+1E8C", "U+1E8E", "U+1E90", "U+1E92", "U+1E94",
       "U+1E60", "U+1EA0", "U+1EA2", "U+1EA4", "U+1EA6", "U+1EA8", "U+1EAA", "U+1EAC",
       "U+1EAE", "U+1EB0", "U+1EB2", "U+1EB4", "U+1EB6", "U+1EB8", "U+1EBA", "U+1EBC",
       "U+1EBE", "U+1EC0", "U+1EC2", "U+1EC4", "U+1EC6", "U+1EC8", "U+1ECA", "U+1ECC",
       "U+1ECE", "U+1ED0", "U+1ED2", "U+1ED4", "U+1ED6", "U+1ED8", "U+1EDA", "U+1EDC",
       "U+1EDE", "U+1EE0", "U+1EE2", "U+1EE4", "U+1EE6", "U+1EE8", "U+1EEA", "U+1EEC",
       "U+1EEE", "U+1EF0", "U+1EF2", "U+1EF4", "U+1EF6", "U+1EF8", "U+1EFA", "U+1EFC",
       "U+1EFE", "U+1F08", "U+1F09", "U+1F0A", "U+1F0B", "U+1F0C", "U+1F0D", "U+1F0E",
       "U+1F0F", "U+1F18", "U+1F19", "U+1F1A", "U+1F1B", "U+1F1C", "U+1F1D", "U+1F28",
       "U+1F29", "U+1F2A", "U+1F2B", "U+1F2C", "U+1F2D", "U+1F2E", "U+1F2F", "U+1F38",
       "U+1F39", "U+1F3A", "U+1F3B", "U+1F3C", "U+1F3D", "U+1F3E", "U+1F3F", "U+1F48",
       "U+1F49", "U+1F4A", "U+1F4B", "U+1F4C", "U+1F4D", "U+1F59", "U+1F5B", "U+1F5D",
       "U+1F5F", "U+1F68", "U+1F69", "U+1F6A", "U+1F6B", "U+1F6C", "U+1F6D", "U+1F6E",
       "U+1F6F", "U+1FBA", "U+1FBB", "U+1FC8", "U+1FC9", "U+1FCA", "U+1FCB", "U+1FDA",
       "U+1FDB", "U+1FF8", "U+1FF9", "U+1FEA", "U+1FEB", "U+1FFA", "U+1FFB", "U+1F88",
       "U+1F89", "U+1F8A", "U+1F8B", "U+1F8C", "U+1F8D", "U+1F8E", "U+1F8F", "U+1F98",
       "U+1F99", "U+1F9A", "U+1F9B", "U+1F9C", "U+1F9D", "U+1F9E", "U+1F9F", "U+1FA8",
       "U+1FA9", "U+1FAA", "U+1FAB", "U+1FAC", "U+1FAD", "U+1FAE", "U+1FAF", "U+1FB8",
       "U+1FB9", "U+1FBC", "U+0399", "U+1FCC", "U+1FD8", "U+1FD9", "U+1FE8", "U+1FE9",
       "U+1FEC", "U+1FFC", "U+2132", "U+2160", "U+2161", "U+2162", "U+2163", "U+2164",
       "U+2165", "U+2166", "U+2167", "U+2168", "U+2169", "U+216A", "U+216B", "U+216C",
       "U+216D", "U+216E", "U+216F", "U+2183", "U+24B6", "U+24B7", "U+24B8", "U+24B9",
       "U+24BA", "U+24BB", "U+24BC", "U+24BD", "U+24BE", "U+24BF", "U+24C0", "U+24C1",
       "U+24C2", "U+24C3", "U+24C4", "U+24C5", "U+24C6", "U+24C7", "U+24C8", "U+24C9",
       "U+24CA", "U+24CB", "U+24CC", "U+24CD", "U+24CE", "U+24CF", "U+2C00", "U+2C01",
       "U+2C02", "U+2C03", "U+2C04", "U+2C05", "U+2C06", "U+2C07", "U+2C08", "U+2C09",
       "U+2C0A", "U+2C0B", "U+2C0C", "U+2C0D", "U+2C0E", "U+2C0F", "U+2C10", "U+2C11",
       "U+2C12", "U+2C13", "U+2C14", "U+2C15", "U+2C16", "U+2C17", "U+2C18", "U+2C19",
       "U+2C1A", "U+2C1B", "U+2C1C", "U+2C1D", "U+2C1E", "U+2C1F", "U+2C20", "U+2C21",
       "U+2C22", "U+2C23", "U+2C24", "U+2C25", "U+2C26", "U+2C27", "U+2C28", "U+2C29",
       "U+2C2A", "U+2C2B", "U+2C2C", "U+2C2D", "U+2C2E", "U+2C2F", "U+2C60", "U+023A",
       "U+023E", "U+2C67", "U+2C69", "U+2C6B", "U+2C72", "U+2C75", "U+2C80", "U+2C82",
       "U+2C84", "U+2C86", "U+2C88", "U+2C8A", "U+2C8C", "U+2C8E", "U+2C90", "U+2C92",
       "U+2C94", "U+2C96", "U+2C98", "U+2C9A", "U+2C9C", "U+2C9E", "U+2CA0", "U+2CA2",
       "U+2CA4", "U+2CA6", "U+2CA8", "U+2CAA", "U+2CAC", "U+2CAE", "U+2CB0", "U+2CB2",
       "U+2CB4", "U+2CB6", "U+2CB8", "U+2CBA", "U+2CBC", "U+2CBE", "U+2CC0", "U+2CC2",
       "U+2CC4", "U+2CC6", "U+2CC8", "U+2CCA", "U+2CCC", "U+2CCE", "U+2CD0", "U+2CD2",
       "U+2CD4", "U+2CD6", "U+2CD8", "U+2CDA", "U+2CDC", "U+2CDE", "U+2CE0", "U+2CE2",
       "U+2CEB", "U+2CED", "U+2CF2", "U+10A0", "U+10A1", "U+10A2", "U+10A3", "U+10A4",
       "U+10A5", "U+10A6", "U+10A7", "U+10A8", "U+10A9", "U+10AA", "U+10AB", "U+10AC",
       "U+10AD", "U+10AE", "U+10AF", "U+10B0", "U+10B1", "U+10B2", "U+10B3", "U+10B4",
       "U+10B5", "U+10B6", "U+10B7", "U+10B8", "U+10B9", "U+10BA", "U+10BB", "U+10BC",
       "U+10BD", "U+10BE", "U+10BF", "U+10C0", "U+10C1", "U+10C2", "U+10C3", "U+10C4",
       "U+10C5", "U+10C7", "U+10CD", "U+A640", "U+A642", "U+A644", "U+A646", "U+A648",
       "U+A64A", "U+A64C", "U+A64E", "U+A650", "U+A652", "U+A654", "U+A656", "U+A658",
       "U+A65A", "U+A65C", "U+A65E", "U+A660", "U+A662", "U+A664", "U+A666", "U+A668",
       "U+A66A", "U+A66C", "U+A680", "U+A682", "U+A684", "U+A686", "U+A688", "U+A68A",
       "U+A68C", "U+A68E", "U+A690", "U+A692", "U+A694", "U+A696", "U+A698", "U+A69A",
       "U+A722", "U+A724", "U+A726", "U+A728", "U+A72A", "U+A72C", "U+A72E", "U+A732",
       "U+A734", "U+A736", "U+A738", "U+A73A", "U+A73C", "U+A73E", "U+A740", "U+A742",
       "U+A744", "U+A746", "U+A748", "U+A74A", "U+A74C", "U+A74E", "U+A750", "U+A752",
       "U+A754", "U+A756", "U+A758", "U+A75A", "U+A75C", "U+A75E", "U+A760", "U+A762",
       "U+A764", "U+A766", "U+A768", "U+A76A", "U+A76C", "U+A76E", "U+A779", "U+A77B",
       "U+A77E", "U+A780", "U+A782", "U+A784", "U+A786", "U+A78B", "U+A790", "U+A792",
       "U+A7C4", "U+A796", "U+A798", "U+A79A", "U+A79C", "U+A79E", "U+A7A0", "U+A7A2",
       "U+A7A4", "U+A7A6", "U+A7A8", "U+A7B4", "U+A7B6", "U+A7B8", "U+A7BA", "U+A7BC",
       "U+A7BE", "U+A7C0", "U+A7C2", "U+A7C7", "U+A7C9", "U+A7D0", "U+A7D6", "U+A7D8",
       "U+A7F5", "U+A7B3", "U+13A0", "U+13A1", "U+13A2", "U+13A3", "U+13A4", "U+13A5",
       "U+13A6", "U+13A7", "U+13A8", "U+13A9", "U+13AA", "U+13AB", "U+13AC", "U+13AD",
       "U+13AE", "U+13AF", "U+13B0", "U+13B1", "U+13B2", "U+13B3", "U+13B4", "U+13B5",
       "U+13B6", "U+13B7", "U+13B8", "U+13B9", "U+13BA", "U+13BB", "U+13BC", "U+13BD",
       "U+13BE", "U+13BF", "U+13C0", "U+13C1", "U+13C2", "U+13C3", "U+13C4", "U+13C5",
       "U+13C6", "U+13C7", "U+13C8", "U+13C9", "U+13CA", "U+13CB", "U+13CC", "U+13CD",
       "U+13CE", "U+13CF", "U+13D0", "U+13D1", "U+13D2", "U+13D3", "U+13D4", "U+13D5",
       "U+13D6", "U+13D7", "U+13D8", "U+13D9", "U+13DA", "U+13DB", "U+13DC", "U+13DD",
       "U+13DE", "U+13DF", "U+13E0", "U+13E1", "U+13E2", "U+13E3", "U+13E4", "U+13E5",
       "U+13E6", "U+13E7", "U+13E8", "U+13E9", "U+13EA", "U+13EB", "U+13EC", "U+13ED",
       "U+13EE", "U+13EF", "U+FF21", "U+FF22", "U+FF23", "U+FF24", "U+FF25", "U+FF26",
       "U+FF27", "U+FF28", "U+FF29", "U+FF2A", "U+FF2B", "U+FF2C", "U+FF2D", "U+FF2E",
       "U+FF2F", "U+FF30", "U+FF31", "U+FF32", "U+FF33", "U+FF34", "U+FF35", "U+FF36",
       "U+FF37", "U+FF38", "U+FF39", "U+FF3A", "U+10400", "U+10401", "U+10402", "U+10403",
       "U+10404", "U+10405", "U+10406", "U+10407", "U+10408", "U+10409", "U+1040A", "U+1040B",
       "U+1040C", "U+1040D", "U+1040E", "U+1040F", "U+10410", "U+10411", "U+10412", "U+10413",
       "U+10414", "U+10415", "U+10416", "U+10417", "U+10418", "U+10419", "U+1041A", "U+1041B",
       "U+1041C", "U+1041D", "U+1041E", "U+1041F", "U+10420", "U+10421", "U+10422", "U+10423",
       "U+10424", "U+10425", "U+10426", "U+10427", "U+104B0", "U+104B1", "U+104B2", "U+104B3",
       "U+104B4", "U+104B5", "U+104B6", "U+104B7", "U+104B8", "U+104B9", "U+104BA", "U+104BB",
       "U+104BC", "U+104BD", "U+104BE", "U+104BF", "U+104C0", "U+104C1", "U+104C2", "U+104C3",
       "U+104C4", "U+104C5", "U+104C6", "U+104C7", "U+104C8", "U+104C9", "U+104CA", "U+104CB",
       "U+104CC", "U+104CD", "U+104CE", "U+104CF", "U+104D0", "U+104D1", "U+104D2", "U+104D3",
       "U+10570", "U+10571", "U+10572", "U+10573", "U+10574", "U+10575", "U+10576", "U+10577",
       "U+10578", "U+10579", "U+1057A", "U+1057C", "U+1057D", "U+1057E", "U+1057F", "U+10580",
       "U+10581", "U+10582", "U+10583", "U+10584", "U+10585", "U+10586", "U+10587", "U+10588",
       "U+10589", "U+1058A", "U+1058C", "U+1058D", "U+1058E", "U+1058F", "U+10590", "U+10591",
       "U+10592", "U+10594", "U+10595", "U+10C80", "U+10C81", "U+10C82", "U+10C83", "U+10C84",
       "U+10C85", "U+10C86", "U+10C87", "U+10C88", "U+10C89", "U+10C8A", "U+10C8B", "U+10C8C",
       "U+10C8D", "U+10C8E", "U+10C8F", "U+10C90", "U+10C91", "U+10C92", "U+10C93", "U+10C94",
       "U+10C95", "U+10C96", "U+10C97", "U+10C98", "U+10C99", "U+10C9A", "U+10C9B", "U+10C9C",
       "U+10C9D", "U+10C9E", "U+10C9F", "U+10CA0", "U+10CA1", "U+10CA2", "U+10CA3", "U+10CA4",
       "U+10CA5", "U+10CA6", "U+10CA7", "U+10CA8", "U+10CA9", "U+10CAA", "U+10CAB", "U+10CAC",
       "U+10CAD", "U+10CAE", "U+10CAF", "U+10CB0", "U+10CB1", "U+10CB2", "U+118A0", "U+118A1",
       "U+118A2", "U+118A3", "U+118A4", "U+118A5", "U+118A6", "U+118A7", "U+118A8", "U+118A9",
       "U+118AA", "U+118AB", "U+118AC", "U+118AD", "U+118AE", "U+118AF", "U+118B0", "U+118B1",
       "U+118B2", "U+118B3", "U+118B4", "U+118B5", "U+118B6", "U+118B7", "U+118B8", "U+118B9",
       "U+118BA", "U+118BB", "U+118BC", "U+118BD", "U+118BE", "U+118BF", "U+16E40", "U+16E41",
       "U+16E42", "U+16E43", "U+16E44", "U+16E45", "U+16E46", "U+16E47", "U+16E48", "U+16E49",
       "U+16E4A", "U+16E4B", "U+16E4C", "U+16E4D", "U+16E4E", "U+16E4F", "U+16E50", "U+16E51",
       "U+16E52", "U+16E53", "U+16E54", "U+16E55", "U+16E56", "U+16E57", "U+16E58", "U+16E59",
       "U+16E5A", "U+16E5B", "U+16E5C", "U+16E5D", "U+16E5E", "U+16E5F", "U+1E900", "U+1E901",
       "U+1E902", "U+1E903", "U+1E904", "U+1E905", "U+1E906", "U+1E907", "U+1E908", "U+1E909",
       "U+1E90A", "U+1E90B", "U+1E90C", "U+1E90D", "U+1E90E", "U+1E90F", "U+1E910", "U+1E911",
       "U+1E912", "U+1E913", "U+1E914", "U+1E915", "U+1E916", "U+1E917", "U+1E918", "U+1E919",
       "U+1E91A", "U+1E91B", "U+1E91C", "U+1E91D", "U+1E91E", "U+1E91F", "U+1E920", "U+1E921" >>

\* unicode.ToLower (Unicode 15.0.0): the code points outside ASCII that have
\* a lower case, in code point order ...
toLowerFrom ==
    << "U+00C0", "U+00C1", "U+00C2", "U+00C3", "U+00C4", "U+00C5", "U+00C6", "U+00C7",
       "U+00C8", "U+00C9", "U+00CA", "U+00CB", "U+00CC", "U+00CD", "U+00CE", "U+00CF",
       "U+00D0", "U+00D1", "U+00D2", "U+00D3", "U+00D4", "U+00D5", "U+00D6", "U+00D8",
       "U+00D9", "U+00DA", "U+00DB", "U+00DC", "U+00DD", "U+00DE", "U+0100", "U+0102",
       "U+0104", "U+0106", "U+0108", "U+010A", "U+010C", "U+010E", "U+0110", "U+0112",
       "U+0114", "U+0116", "U+0118", "U+011A", "U+011C", "U+011E", "U+0120", "U+0122",
       "U+0124", "U+0126", "U+0128", "U+012A", "U+012C", "U+012E", "U+0130", "U+0132",
       "U+0134", "U+0136", "U+0139", "U+013B", "U+013D", "U+013F", "U+0141", "U+0143",
       "U+0145", "U+0147", "U+014A", "U+014C", "U+014E", "U+0150", "U+0152", "U+0154",
       "U+0156", "U+0158", "U+015A", "U+015C", "U+015E", "U+0160", "U+0162", "U+0164",
       "U+0166", "U+0168", "U+016A", "U+016C", "U+016E", "U+0170", "U+0172", "U+0174",
       "U+0176", "U+0178", "U+0179", "U+017B", "U+017D", "U+0181", "U+0182", "U+0184",
       "U+0186", "U+0187", "U+0189", "U+018A", "U+018B", "U+018E", "U+018F", "U+0190",
       "U+0191", "U+0193", "U+0194", "U+0196", "U+0197", "U+0198", "U+019C", "U+019D",
       "U+019F", "U+01A0", "U+01A2", "U+01A4", "U+01A6", "U+01A7", "U+01A9", "U+01AC",
       "U+01AE", "U+01AF", "U+01B1", "U+01B2", "U+01B3", "U+01B5", "U+01B7", "U+01B8",
       "U+01BC", "U+01C4", "U+01C5", "U+01C7", "U+01C8", "U+01CA", "U+01CB", "U+01CD",
       "U+01CF", "U+01D1", "U+01D3", "U+01D5", "U+01D7", "U+01D9", "U+01DB", "U+01DE",
       "U+01E0", "U+01E2", "U+01E4", "U+01E6", "U+01E8", "U+01EA", "U+01EC", "U+01EE",
       "U+01F1", "U+01F2", "U+01F4", "U+01F6", "U+01F7", "U+01F8", "U+01FA", "U+01FC",
       "U+01FE", "U+0200", "U+0202", "U+0204", "U+0206", "U+0208", "U+020A", "U+020C",
       "U+020E", "U+0210", "U+0212", "U+0214", "U+0216", "U+0218", "U+021A", "U+021C",
       "U+021E", "U+0220", "U+0222", "U+0224", "U+0226", "U+0228", "U+022A", "U+022C",
       "U+022E", "U+0230", "U+0232", "U+023A", "U+023B", "U+023D", "U+023E", "U+0241",
       "U+0243", "U+0244", "U+0245", "U+0246", "U+0248", "U+024A", "U+024C", "U+024E",
       "U+0370", "U+0372", "U+0376", "U+037F", "U+0386", "U+0388", "U+0389", "U+038A",
       "U+038C", "U+038E", "U+038F", "U+0391", "U+0392", "U+0393", "U+0394", "U+0395",
       "U+0396", "U+0397", "U+0398", "U+0399", "U+039A", "U+039B", "U+039C", "U+039D",
       "U+039E", "U+039F", "U+03A0", "U+03A1", "U+03A3", "U+03A4", "U+03A5", "U+03A6",
       "U+03A7", "U+03A8", "U+03A9", "U+03AA", "U+03AB", "U+03CF", "U+03D8", "U+03DA",
       "U+03DC", "U+03DE", "U+03E0", "U+03E2", "U+03E4", "U+03E6", "U+03E8", "U+03EA",
       "U+03EC", "U+03EE", "U+03F4", "U+03F7", "U+03F9", "U+03FA", "U+03FD", "U+03FE",
       "U+03FF", "U+0400", "U+0401", "U+0402", "U+0403", "U+0404", "U+0405", "U+0406",
       "U+0407", "U+0408", "U+0409", "U+040A", "U+040B", "U+040C", "U+040D", "U+040E",
       "U+040F", "U+0410", "U+0411", "U+0412", "U+0413", "U+0414", "U+0415", "U+0416",
       "U+0417", "U+0418", "U+0419", "U+041A", "U+041B", "U+041C", "U+041D", "U+041E",
       "U+041F", "U+0420", "U+0421", "U+0422", "U+0423", "U+0424", "U+0425", "U+0426",
       "U+0427", "U+0428", "U+0429", "U+042A", "U+042B", "U+042C", "U+042D", "U+042E",
       "U+042F", "U+0460", "U+0462", "U+0464", "U+0466", "U+0468", "U+046A", "U+046C",
       "U+046E", "U+0470", "U+0472", "U+0474", "U+0476", "U+0478", "U+047A", "U+047C",
       "U+047E", "U+0480", "U+048A", "U+048C", "U+048E", "U+0490", "U+0492", "U+0494",
       "U+0496", "U+0498", "U+049A", "U+049C", "U+049E", "U+04A0", "U+04A2", "U+04A4",
       "U+04A6", "U+04A8", "U+04AA", "U+04AC", "U+04AE", "U+04B0", "U+04B2", "U+04B4",
       "U+04B6", "U+04B8", "U+04BA", "U+04BC", "U+04BE", "U+04C0", "U+04C1", "U+04C3",
       "U+04C5", "U+04C7", "U+04C9", "U+04CB", "U+04CD", "U+04D0", "U+04D2", "U+04D4",
       "U+04D6", "U+04D8", "U+04DA", "U+04DC", "U+04DE", "U+04E0", "U+04E2", "U+04E4",
       "U+04E6", "U+04E8", "U+04EA", "U+04EC", "U+04EE", "U+04F0", "U+04F2", "U+04F4",
       "U+04F6", "U+04F8", "U+04FA", "U+04FC", "U+04FE", "U+0500", "U+0502", "U+0504",
       "U+0506", "U+0508", "U+050A", "U+050C", "U+050E", "U+0510", "U+0512", "U+0514",
       "U+0516", "U+0518", "U+051A", "U+051C", "U+051E", "U+0520", "U+0522", "U+0524",
       "U+0526", "U+0528", "U+052A", "U+052C", "U+052E", "U+0531", "U+0532", "U+0533",
       "U+0534", "U+0535", "U+0536", "U+0537", "U+0538", "U+0539", "U+053A", "U+053B",
       "U+053C", "U+053D", "U+053E", "U+053F", "U+0540", "U+0541", "U+0542", "U+0543",
       "U+0544", "U+0545", "U+0546", "U+0547", "U+0548", "U+0549", "U+054A", "U+054B",
       "U+054C", "U+054D", "U+054E", "U+054F", "U+0550", "U+0551", "U+0552", "U+0553",
       "U+0554", "U+0555", "U+0556", "U+10A0", "U+10A1", "U+10A2", "U+10A3", "U+10A4",
       "U+10A5", "U+10A6", "U+10A7", "U+10A8", "U+10A9", "U+10AA", "U+10AB", "U+10AC",
       "U+10AD", "U+10AE", "U+10AF", "U+10B0", "U+10B1", "U+10B2", "U+10B3", "U+10B4",
       "U+10B5", "U+10B6", "U+10B7", "U+10B8", "U+10B9", "U+10BA", "U+10BB", "U+10BC",
       "U+10BD", "U+10BE", "U+10BF", "U+10C0", "U+10C1", "U+10C2", "U+10C3", "U+10C4",
       "U+10C5", "U+10C7", "U+10CD", "U+13A0", "U+13A1", "U+13A2", "U+13A3", "U+13A4",
       "U+13A5", "U+13A6", "U+13A7", "U+13A8", "U+13A9", "U+13AA", "U+13AB", "U+13AC",
       "U+13AD", "U+13AE", "U+13AF", "U+13B0", "U+13B1", "U+13B2", "U+13B3", "U+13B4",
       "U+13B5", "U+13B6", "U+13B7", "U+13B8", "U+13B9", "U+13BA", "U+13BB", "U+13BC",
       "U+13BD", "U+13BE", "U+13BF", "U+13C0", "U+13C1", "U+13C2", "U+13C3", "U+13C4",
       "U+13C5", "U+13C6", "U+13C7", "U+13C8", "U+13C9", "U+13CA", "U+13CB", "U+13CC",
       "U+13CD", "U+13CE", "U+13CF", "U+13D0", "U+13D1", "U+13D2", "U+13D3", "U+13D4",
       "U+13D5", "U+13D6", "U+13D7", "U+13D8", "U+13D9", "U+13DA", "U+13DB", "U+13DC",
       "U+13DD", "U+13DE", "U+13DF", "U+13E0", "U+13E1", "U+13E2", "U+13E3", "U+13E4",
       "U+13E5", "U+13E6", "U+13E7", "U+13E8", "U+13E9", "U+13EA", "U+13EB", "U+13EC",
       "U+13ED", "U+13EE", "U+13EF", "U+13F0", "U+13F1", "U+13F2", "U+13F3", "U+13F4",
       "U+13F5", "U+1C90", "U+1C91", "U+1C92", "U+1C93", "U+1C94", "U+1C95", "U+1C96",
       "U+1C97", "U+1C98", "U+1C99", "U+1C9A", "U+1C9B", "U+1C9C", "U+1C9D", "U+1C9E",
       "U+1C9F", "U+1CA0", "U+1CA1", "U+1CA2", "U+1CA3", "U+1CA4", "U+1CA5", "U+1CA6",
       "U+1CA7", "U+1CA8", "U+1CA9", "U+1CAA", "U+1CAB", "U+1CAC", "U+1CAD", "U+1CAE",
       "U+1CAF", "U+1CB0", "U+1CB1", "U+1CB2", "U+1CB3", "U+1CB4", "U+1CB5", "U+1CB6",
       "U+1CB7", "U+1CB8", "U+1CB9", "U+1CBA", "U+1CBD", "U+1CBE", "U+1CBF", "U+1E00",
       "U+1E02", "U+1E04", "U+1E06", "U+1E08", "U+1E0A", "U+1E0C", "U+1E0E", "U+1E10",
       "U+1E12", "U+1E14", "U+1E16", "U+1E18", "U+1E1A", "U+1E1C", "U+1E1E", "U+1E20",
       "U+1E22", "U+1E24", "U+1E26", "U+1E28", "U+1E2A", "U+1E2C", "U+1E2E", "U+1E30",
       "U+1E32", "U+1E34", "U+1E36", "U+1E38", "U+1E3A", "U+1E3C", "U+1E3E", "U+1E40",
       "U+1E42", "U+1E44", "U+1E46", "U+1E48", "U+1E4A", "U+1E4C", "U+1E4E", "U+1E50",
       "U+1E52", "U+1E54", "U+1E56", "U+1E58", "U+1E5A", "U+1E5C", "U+1E5E", "U+1E60",
       "U+1E62", "U+1E64", "U+1E66", "U+1E68", "U+1E6A", "U+1E6C", "U+1E6E", "U+1E70",
       "U+1E72", "U+1E74", "U+1E76", "U+1E78", "U+1E7A", "U+1E7C", "U+1E7E", "U+1E80",
       "U+1E82", "U+1E84", "U+1E86", "U+1E88", "U+1E8A", "U+1E8C", "U+1E8E", "U+1E90",
       "U+1E92", "U+1E94", "U+1E9E", "U+1EA0", "U+1EA2", "U+1EA4", "U+1EA6", "U+1EA8",
       "U+1EAA", "U+1EAC", "U+1EAE", "U+1EB0", "U+1EB2", "U+1EB4", "U+1EB6", "U+1EB8",
       "U+1EBA", "U+1EBC", "U+1EBE", "U+1EC0", "U+1EC2", "U+1EC4", "U+1EC6", "U+1EC8",
       "U+1ECA", "U+1ECC", "U+1ECE", "U+1ED0", "U+1ED2", "U+1ED4", "U+1ED6", "U+1ED8",
       "U+1EDA", "U+1EDC", "U+1EDE", "U+1EE0", "U+1EE2", "U+1EE4", "U+1EE6", "U+1EE8",
       "U+1EEA", "U+1EEC", "U+1EEE", "U+1EF0", "U+1EF2", "U+1EF4", "U+1EF6", "U+1EF8",
       "U+1EFA", "U+1EFC", "U+1EFE", "U+1F08", "U+1F09", "U+1F0A", "U+1F0B", "U+1F0C",
       "U+1F0D", "U+1F0E", "U+1F0F", "U+1F18", "U+1F19", "U+1F1A", "U+1F1B", "U+1F1C",
       "U+1F1D", "U+1F28", "U+1F29", "U+1F2A", "U+1F2B", "U+1F2C", "U+1F2D", "U+1F2E",
       "U+1F2F", "U+1F38", "U+1F39", "U+1F3A", "U+1F3B", "U+1F3C", "U+1F3D", "U+1F3E",
       "U+1F3F", "U+1F48", "U+1F49", "U+1F4A", "U+1F4B", "U+1F4C", "U+1F4D", "U+1F59",
       "U+1F5B", "U+1F5D", "U+1F5F", "U+1F68", "U+1F69", "U+1F6A", "U+1F6B", "U+1F6C",
       "U+1F6D", "U+1F6E", "U+1F6F", "U+1F88", "U+1F89", "U+1F8A", "U+1F8B", "U+1F8C",
       "U+1F8D", "U+1F8E", "U+1F8F", "U+1F98", "U+1F99", "U+1F9A", "U+1F9B", "U+1F9C",
       "U+1F9D", "U+1F9E", "U+1F9F", "U+1FA8", "U+1FA9", "U+1FAA", "U+1FAB", "U+1FAC",
       "U+1FAD", "U+1FAE", "U+1FAF", "U+1FB8", "U+1FB9", "U+1FBA", "U+1FBB", "U+1FBC",
       "U+1FC8", "U+1FC9", "U+1FCA", "U+1FCB", "U+1FCC", "U+1FD8", "U+1FD9", "U+1FDA",
       "U+1FDB", "U+1FE8", "U+1FE9", "U+1FEA", "U+1FEB", "U+1FEC", "U+1FF8", "U+1FF9",
       "U+1FFA", "U+1FFB", "U+1FFC", "U+2126", "U+212A", "U+212B", "U+2132", "U+2160",
       "U+2161", "U+2162", "U+2163", "U+2164", "U+2165", "U+2166", "U+2167", "U+2168",
       "U+2169", "U+216A", "U+216B", "U+216C", "U+216D", "U+216E", "U+216F", "U+2183",
       "U+24B6", "U+24B7", "U+24B8", "U+24B9", "U+24BA", "U+24BB", "U+24BC", "U+24BD",
       "U+24BE", "U+24BF", "U+24C0", "U+24C1", "U+24C2", "U+24C3", "U+24C4", "U+24C5",
       "U+24C6", "U+24C7", "U+24C8", "U+24C9", "U+24CA", "U+24CB", "U+24CC", "U+24CD",
       "U+24CE", "U+24CF", "U+2C00", "U+2C01", "U+2C02", "U+2C03", "U+2C04", "U+2C05",
       "U+2C06", "U+2C07", "U+2C08", "U+2C09", "U+2C0A", "U+2C0B", "U+2C0C", "U+2C0D",
       "U+2C0E", "U+2C0F", "U+2C10", "U+2C11", "U+2C12", "U+2C13", "U+2C14", "U+2C15",
       "U+2C16", "U+2C17", "U+2C18", "U+2C19", "U+2C1A", "U+2C1B", "U+2C1C", "U+2C1D",
       "U+2C1E", "U+2C1F", "U+2C20", "U+2C21", "U+2C22", "U+2C23", "U+2C24", "U+2C25",
       "U+2C26", "U+2C27", "U+2C28", "U+2C29", "U+2C2A", "U+2C2B", "U+2C2C", "U+2C2D",
       "U+2C2E", "U+2C2F", "U+2C60", "U+2C62", "U+2C63", "U+2C64", "U+2C67", "U+2C69",
       "U+2C6B", "U+2C6D", "U+2C6E", "U+2C6F", "U+2C70", "U+2C72", "U+2C75", "U+2C7E",
       "U+2C7F", "U+2C80", "U+2C82", "U+2C84", "U+2C86", "U+2C88", "U+2C8A", "U+2C8C",
       "U+2C8E", "U+2C90", "U+2C92", "U+2C94", "U+2C96", "U+2C98", "U+2C9A", "U+2C9C",
       "U+2C9E", "U+2CA0", "U+2CA2", "U+2CA4", "U+2CA6", "U+2CA8", "U+2CAA", "U+2CAC",
       "U+2CAE", "U+2CB0", "U+2CB2", "U+2CB4", "U+2CB6", "U+2CB8", "U+2CBA", "U+2CBC",
       "U+2CBE", "U+2CC0", "U+2CC2", "U+2CC4", "U+2CC6", "U+2CC8", "U+2CCA", "U+2CCC",
       "U+2CCE", "U+2CD0", "U+2CD2", "U+2CD4", "U+2CD6", "U+2CD8", "U+2CDA", "U+2CDC",
       "U+2CDE", "U+2CE0", "U+2CE2", "U+2CEB", "U+2CED", "U+2CF2", "U+A640", "U+A642",
       "U+A644", "U+A646", "U+A648", "U+A64A", "U+A64C", "U+A64E", "U+A650", "U+A652",
       "U+A654", "U+A656", "U+A658", "U+A65A", "U+A65C", "U+A65E", "U+A660", "U+A662",
       "U+A664", "U+A666", "U+A668", "U+A66A", "U+A66C", "U+A680", "U+A682", "U+A684",
       "U+A686", "U+A688", "U+A68A", "U+A68C", "U+A68E", "U+A690", "U+A692", "U+A694",
       "U+A696", "U+A698", "U+A69A", "U+A722", "U+A724", "U+A726", "U+A728", "U+A72A",
       "U+A72C", "U+A72E", "U+A732", "U+A734", "U+A736", "U+A738", "U+A73A", "U+A73C",
       "U+A73E", "U+A740", "U+A742", "U+A744", "U+A746", "U+A748", "U+A74A", "U+A74C",
       "U+A74E", "U+A750", "U+A752", "U+A754", "U+A756", "U+A758", "U+A75A", "U+A75C",
       "U+A75E", "U+A760", "U+A762", "U+A764", "U+A766", "U+A768", "U+A76A", "U+A76C",
       "U+A76E", "U+A779", "U+A77B", "U+A77D", "U+A77E", "U+A780", "U+A782", "U+A784",
       "U+A786", "U+A78B", "U+A78D", "U+A790", "U+A792", "U+A796", "U+A798", "U+A79A",
       "U+A79C", "U+A79E", "U+A7A0", "U+A7A2", "U+A7A4", "U+A7A6", "U+A7A8", "U+A7AA",
       "U+A7AB", "U+A7AC", "U+A7AD", "U+A7AE", "U+A7B0", "U+A7B1", "U+A7B2", "U+A7B3",
       "U+A7B4", "U+A7B6", "U+A7B8", "U+A7BA", "U+A7BC", "U+A7BE", "U+A7C0", "U+A7C2",
       "U+A7C4", "U+A7C5", "U+A7C6", "U+A7C7", "U+A7C9", "U+A7D0", "U+A7D6", "U+A7D8",
       "U+A7F5", "U+FF21", "U+FF22", "U+FF23", "U+FF24", "U+FF25", "U+FF26", "U+FF27",
       "U+FF28", "U+FF29", "U+FF2A", "U+FF2B", "U+FF2C", "U+FF2D", "U+FF2E", "U+FF2F",
       "U+FF30", "U+FF31", "U+FF32", "U+FF33", "U+FF34", "U+FF35", "U+FF36", "U+FF37",
       "U+FF38", "U+FF39", "U+FF3A", "U+10400", "U+10401", "U+10402", "U+10403", "U+10404",
       "U+10405", "U+10406", "U+10407", "U+10408", "U+10409", "U+1040A", "U+1040B", "U+1040C",
       "U+1040D", "U+1040E", "U+1040F", "U+10410", "U+10411", "U+10412", "U+10413", "U+10414",
       "U+10415", "U+10416", "U+10417", "U+10418", "U+10419", "U+1041A", "U+1041B", "U+1041C",
       "U+1041D", "U+1041E", "U+1041F", "U+10420", "U+10421", "U+10422", "U+10423", "U+10424",
       "U+10425", "U+10426", "U+10427", "U+104B0", "U+104B1", "U+104B2", "U+104B3", "U+104B4",
       "U+104B5", "U+104B6", "U+104B7", "U+104B8", "U+104B9", "U+104BA", "U+104BB", "U+104BC",
       "U+104BD", "U+104BE", "U+104BF", "U+104C0", "U+104C1", "U+104C2", "U+104C3", "U+104C4",
       "U+104C5", "U+104C6", "U+104C7", "U+104C8", "U+104C9", "U+104CA", "U+104CB", "U+104CC",
       "U+104CD", "U+104CE", "U+104CF", "U+104D0", "U+104D1", "U+104D2", "U+104D3", "U+10570",
       "U+10571", "U+10572", "U+10573", "U+10574", "U+10575", "U+10576", "U+10577", "U+10578",
       "U+10579", "U+1057A", "U+1057C", "U+1057D", "U+1057E", "U+1057F", "U+10580", "U+10581",
       "U+10582", "U+10583", "U+10584", "U+10585", "U+10586", "U+10587", "U+10588", "U+10589",
       "U+1058A", "U+1058C", "U+1058D", "U+1058E", "U+1058F", "U+10590", "U+10591", "U+10592",
       "U+10594", "U+10595", "U+10C80", "U+10C81", "U+10C82", "U+10C83", "U+10C84", "U+10C85",
       "U+10C86", "U+10C87", "U+10C88", "U+10C89", "U+10C8A", "U+10C8B", "U+10C8C", "U+10C8D",
       "U+10C8E", "U+10C8F", "U+10C90", "U+10C91", "U+10C92", "U+10C93", "U+10C94", "U+10C95",
       "U+10C96", "U+10C97", "U+10C98", "U+10C99", "U+10C9A", "U+10C9B", "U+10C9C", "U+10C9D",
       "U+10C9E", "U+10C9F", "U+10CA0", "U+10CA1", "U+10CA2", "U+10CA3", "U+10CA4", "U+10CA5",
       "U+10CA6", "U+10CA7", "U+10CA8", "U+10CA9", "U+10CAA", "U+10CAB", "U+10CAC", "U+10CAD",
       "U+10CAE", "U+10CAF", "U+10CB0", "U+10CB1", "U+10CB2", "U+118A0", "U+118A1", "U+118A2",
       "U+118A3", "U+118A4", "U+118A5", "U+118A6", "U+118A7", "U+118A8", "U+118A9", "U+118AA",
       "U+118AB", "U+118AC", "U+118AD", "U+118AE", "U+118AF", "U+118B0", "U+118B1", "U+118B2",
       "U+118B3", "U+118B4", "U+118B5", "U+118B6", "U+118B7", "U+118B8", "U+118B9", "U+118BA",
       "U+118BB", "U+118BC", "U+118BD", "U+118BE", "U+118BF", "U+16E40", "U+16E41", "U+16E42",
       "U+16E43", "U+16E44", "U+16E45", "U+16E46", "U+16E47", "U+16E48", "U+16E49", "U+16E4A",
       "U+16E4B", "U+16E4C", "U+16E4D", "U+16E4E", "U+16E4F", "U+16E50", "U+16E51", "U+16E52",
       "U+16E53", "U+16E54", "U+16E55", "U+16E56", "U+16E57", "U+16E58", "U+16E59", "U+16E5A",
       "U+16E5B", "U+16E5C", "U+16E5D", "U+16E5E", "U+16E5F", "U+1E900", "U+1E901", "U+1E902",
       "U+1E903", "U+1E904", "U+1E905", "U+1E906", "U+1E907", "U+1E908", "U+1E909", "U+1E90A",
       "U+1E90B", "U+1E90C", "U+1E90D", "U+1E90E", "U+1E90F", "U+1E910", "U+1E911", "U+1E912",
       "U+1E913", "U+1E914", "U+1E915", "U+1E916", "U+1E917", "U+1E918", "U+1E919", "U+1E91A",
       "U+1E91B", "U+1E91C", "U+1E91D", "U+1E91E", "U+1E91F", "U+1E920", "U+1E921" >>

\* ... and the lower case of each, at the same position
toLowerTo ==
    << "U+00E0", "U+00E1", "U+00E2", "U+00E3", "U+00E4", "U+00E5", "U+00E6", "U+00E7",
       "U+00E8", "U+00E9", "U+00EA", "U+00EB", "U+00EC", "U+00ED", "U+00EE", "U+00EF",
       "U+00F0", "U+00F1", "U+00F2", "U+00F3", "U+00F4", "U+00F5", "U+00F6", "U+00F8",
       "U+00F9", "U+00FA", "U+00FB", "U+00FC", "U+00FD", "U+00FE", "U+0101", "U+0103",
       "U+0105", "U+0107", "U+0109", "U+010B", "U+010D", "U+010F", "U+0111", "U+0113",
       "U+0115", "U+0117", "U+0119", "U+011B", "U+011D", "U+011F", "U+0121", "U+0123",
       "U+0125", "U+0127", "U+0129", "U+012B", "U+012D", "U+012F", "i", "U+0133",
       "U+0135", "U+0137", "U+013A", "U+013C", "U+013E", "U+0140", "U+0142", "U+0144",
       "U+0146", "U+0148", "U+014B", "U+014D", "U+014F", "U+0151", "U+0153", "U+0155",
       "U+0157", "U+0159", "U+015B", "U+015D", "U+015F", "U+0161", "U+0163", "U+0165",
       "U+0167", "U+0169", "U+016B", "U+016D", "U+016F", "U+0171", "U+0173", "U+0175",
       "U+0177", "U+00FF", "U+017A", "U+017C", "U+017E", "U+0253", "U+0183", "U+0185",
       "U+0254", "U+0188", "U+0256", "U+0257", "U+018C", "U+01DD", "U+0259", "U+025B",
       "U+0192", "U+0260", "U+0263", "U+0269", "U+0268", "U+0199", "U+026F", "U+0272",
       "U+0275", "U+01A1", "U+01A3", "U+01A5", "U+0280", "U+01A8", "U+0283", "U+01AD",
       "U+0288", "U+01B0", "U+028A", "U+028B", "U+01B4", "U+01B6", "U+0292", "U+01B9",
       "U+01BD", "U+01C6", "U+01C6", "U+01C9", "U+01C9", "U+01CC", "U+01CC", "U+01CE",
       "U+01D0", "U+01D2", "U+01D4", "U+01D6", "U+01D8", "U+01DA", "U+01DC", "U+01DF",
       "U+01E1", "U+01E3", "U+01E5", "U+01E7", "U+01E9", "U+01EB", "U+01ED", "U+01EF",
       "U+01F3", "U+01F3", "U+01F5", "U+0195", "U+01BF", "U+01F9", "U+01FB", "U+01FD",
       "U+01FF", "U+0201", "U+0203", "U+0205", "U+0207", "U+0209", "U+020B", "U+020D",
       "U+020F", "U+0211", "U+0213", "U+0215", "U+0217", "U+0219", "U+021B", "U+021D",
       "U+021F", "U+019E", "U+0223", "U+0225", "U+0227", "U+0229", "U+022B", "U+022D",
       "U+022F", "U+0231", "U+0233", "U+2C65", "U+023C", "U+019A", "U+2C66", "U+0242",
       "U+0180", "U+0289", "U+028C", "U+0247", "U+0249", "U+024B", "U+024D", "U+024F",
       "U+0371", "U+0373", "U+0377", "U+03F3", "U+03AC", "U+03AD", "U+03AE", "U+03AF",
       "U+03CC", "U+03CD", "U+03CE", "U+03B1", "U+03B2", "U+03B3", "U+03B4", "U+03B5",
       "U+03B6", "U+03B7", "U+03B8", "U+03B9", "U+03BA", "U+03BB", "U+03BC", "U+03BD",
       "U+03BE", "U+03BF", "U+03C0", "U+03C1", "U+03C3", "U+03C4", "U+03C5", "U+03C6",
       "U+03C7", "U+03C8", "U+03C9", "U+03CA", "U+03CB", "U+03D7", "U+03D9", "U+03DB",
       "U+03DD", "U+03DF", "U+03E1", "U+03E3", "U+03E5", "U+03E7", "U+03E9", "U+03EB",
       "U+03ED", "U+03EF", "U+03B8", "U+03F8", "U+03F2", "U+03FB", "U+037B", "U+037C",
       "U+037D", "U+0450", "U+0451", "U+0452", "U+0453", "U+0454", "U+0455", "U+0456",
       "U+0457", "U+0458", "U+0459", "U+045A", "U+045B", "U+045C", "U+045D", "U+045E",
       "U+045F", "U+0430", "U+0431", "U+0432", "U+0433", "U+0434", "U+0435", "U+0436",
       "U+0437", "U+0438", "U+0439", "U+043A", "U+043B", "U+043C", "U+043D", "U+043E",
       "U+043F", "U+0440", "U+0441", "U+0442", "U+0443", "U+0444", "U+0445", "U+0446",
       "U+0447", "U+0448", "U+0449", "U+044A", "U+044B", "U+044C", "U+044D", "U+044E",
       "U+044F", "U+0461", "U+0463", "U+0465", "U+0467", "U+0469", "U+046B", "U+046D",
       "U+046F", "U+0471", "U+0473", "U+0475", "U+0477", "U+0479", "U+047B", "U+047D",
       "U+047F", "U+0481", "U+048B", "U+048D", "U+048F", "U+0491", "U+0493", "U+0495",
       "U+0497", "U+0499", "U+049B", "U+049D", "U+049F", "U+04A1", "U+04A3", "U+04A5",
       "U+04A7", "U+04A9", "U+04AB", "U+04AD", "U+04AF", "U+04B1", "U+04B3", "U+04B5",
       "U+04B7", "U+04B9", "U+04BB", "U+04BD", "U+04BF", "U+04CF", "U+04C2", "U+04C4",
       "U+04C6", "U+04C8", "U+04CA", "U+04CC", "U+04CE", "U+04D1", "U+04D3", "U+04D5",
       "U+04D7", "U+04D9", "U+04DB", "U+04DD", "U+04DF", "U+04E1", "U+04E3", "U+04E5",
       "U+04E7", "U+04E9", "U+04EB", "U+04ED", "U+04EF", "U+04F1", "U+04F3", "U+04F5",
       "U+04F7", "U+04F9", "U+04FB", "U+04FD", "U+04FF", "U+0501", "U+0503", "U+0505",
       "U+0507", "U+0509", "U+050B", "U+050D", "U+050F", "U+0511", "U+0513", "U+0515",
       "U+0517", "U+0519", "U+051B", "U+051D", "U+051F", "U+0521", "U+0523", "U+0525",
       "U+0527", "U+0529", "U+052B", "U+052D", "U+052F", "U+0561", "U+0562", "U+0563",
       "U+0564", "U+0565", "U+0566", "U+0567", "U+0568", "U+0569", "U+056A", "U+056B",
       "U+056C", "U+056D", "U+056E", "U+056F", "U+0570", "U+0571", "U+0572", "U+0573",
       "U+0574", "U+0575", "U+0576", "U+0577", "U+0578", "U+0579", "U+057A", "U+057B",
       "U+057C", "U+057D", "U+057E", "U+057F", "U+0580", "U+0581", "U+0582", "U+0583",
       "U+0584", "U+0585", "U+0586", "U+2D00", "U+2D01", "U+2D02", "U+2D03", "U+2D04",
       "U+2D05", "U+2D06", "U+2D07", "U+2D08", "U+2D09", "U+2D0A", "U+2D0B", "U+2D0C",
       "U+2D0D", "U+2D0E", "U+2D0F", "U+2D10", "U+2D11", "U+2D12", "U+2D13", "U+2D14",
       "U+2D15", "U+2D16", "U+2D17", "U+2D18", "U+2D19", "U+2D1A", "U+2D1B", "U+2D1C",
       "U+2D1D", "U+2D1E", "U+2D1F", "U+2D20", "U+2D21", "U+2D22", "U+2D23", "U+2D24",
       "U+2D25", "U+2D27", "U+2D2D", "U+AB70", "U+AB71", "U+AB72", "U+AB73", "U+AB74",
       "U+AB75", "U+AB76", "U+AB77", "U+AB78", "U+AB79", "U+AB7A", "U+AB7B", "U+AB7C",
       "U+AB7D", "U+AB7E", "U+AB7F", "U+AB80", "U+AB81", "U+AB82", "U+AB83", "U+AB84",
       "U+AB85", "U+AB86", "U+AB87", "U+AB88", "U+AB89", "U+AB8A", "U+AB8B", "U+AB8C",
       "U+AB8D", "U+AB8E", "U+AB8F", "U+AB90", "U+AB91", "U+AB92", "U+AB93", "U+AB94",
       "U+AB95", "U+AB96", "U+AB97", "U+AB98", "U+AB99", "U+AB9A", "U+AB9B", "U+AB9C",
       "U+AB9D", "U+AB9E", "U+AB9F", "U+ABA0", "U+ABA1", "U+ABA2", "U+ABA3", "U+ABA4",
       "U+ABA5", "U+ABA6", "U+ABA7", "U+ABA8", "U+ABA9", "U+ABAA", "U+ABAB", "U+ABAC",
       "U+ABAD", "U+ABAE", "U+ABAF", "U+ABB0", "U+ABB1", "U+ABB2", "U+ABB3", "U+ABB4",
       "U+ABB5", "U+ABB6", "U+ABB7", "U+ABB8", "U+ABB9", "U+ABBA", "U+ABBB", "U+ABBC",
       "U+ABBD", "U+ABBE", "U+ABBF", "U+13F8", "U+13F9", "U+13FA", "U+13FB", "U+13FC",
       "U+13FD", "U+10D0", "U+10D1", "U+10D2", "U+10D3", "U+10D4", "U+10D5", "U+10D6",
       "U+10D7", "U+10D8", "U+10D9", "U+10DA", "U+10DB", "U+10DC", "U+10DD", "U+10DE",
       "U+10DF", "U+10E0", "U+10E1", "U+10E2", "U+10E3", "U+10E4", "U+10E5", "U+10E6",
       "U+10E7", "U+10E8", "U+10E9", "U+10EA", "U+10EB", "U+10EC", "U+10ED", "U+10EE",
       "U+10EF", "U+10F0", "U+10F1", "U+10F2", "U+10F3", "U+10F4", "U+10F5", "U+10F6",
       "U+10F7", "U+10F8", "U+10F9", "U+10FA", "U+10FD", "U+10FE", "U+10FF", "U+1E01",
       "U+1E03", "U+1E05", "U+1E07", "U+1E09", "U+1E0B", "U+1E0D", "U+1E0F", "U+1E11",
       "U+1E13", "U+1E15", "U+1E17", "U+1E19", "U+1E1B", "U+1E1D", "U+1E1F", "U+1E21",
       "U+1E23", "U+1E25", "U+1E27", "U+1E29", "U+1E2B", "U+1E2D", "U+1E2F", "U+1E31",
       "U+1E33", "U+1E35", "U+1E37", "U+1E39", "U+1E3B", "U+1E3D", "U+1E3F", "U+1E41",
       "U+1E43", "U+1E45", "U+1E47", "U+1E49", "U+1E4B", "U+1E4D", "U+1E4F", "U+1E51",
       "U+1E53", "U+1E55", "U+1E57", "U+1E59", "U+1E5B", "U+1E5D", "U+1E5F", "U+1E61",
       "U+1E63", "U+1E65", "U+1E67", "U+1E69", "U+1E6B", "U+1E6D", "U+1E6F", "U+1E71",
       "U+1E73", "U+1E75", "U+1E77", "U+1E79", "U+1E7B", "U+1E7D", "U+1E7F", "U+1E81",
       "U+1E83", "U+1E85", "U+1E87", "U+1E89", "U+1E8B", "U+1E8D", "U+1E8F", "U+1E91",
       "U+1E93", "U+1E95", "U+00DF", "U+1EA1", "U+1EA3", "U+1EA5", "U+1EA7", "U+1EA9",
       "U+1EAB", "U+1EAD", "U+1EAF", "U+1EB1", "U+1EB3", "U+1EB5", "U+1EB7", "U+1EB9",
       "U+1EBB", "U+1EBD", "U+1EBF", "U+1EC1", "U+1EC3", "U+1EC5", "U+1EC7", "U+1EC9",
       "U+1ECB", "U+1ECD", "U+1ECF", "U+1ED1", "U+1ED3", "U+1ED5", "U+1ED7", "U+1ED9",
       "U+1EDB", "U+1EDD", "U+1EDF", "U+1EE1", "U+1EE3", "U+1EE5", "U+1EE7", "U+1EE9",
       "U+1EEB", "U+1EED", "U+1EEF", "U+1EF1", "U+1EF3", "U+1EF5", "U+1EF7", "U+1EF9",
       "U+1EFB", "U+1EFD", "U+1EFF", "U+1F00", "U+1F01", "U+1F02", "U+1F03", "U+1F04",
       "U+1F05", "U+1F06", "U+1F07", "U+1F10", "U+1F11", "U+1F12", "U+1F13", "U+1F14",
       "U+1F15", "U+1F20", "U+1F21", "U+1F22", "U+1F23", "U+1F24", "U+1F25", "U+1F26",
       "U+1F27", "U+1F30", "U+1F31", "U+1F32", "U+1F33", "U+1F34", "U+1F35", "U+1F36",
       "U+1F37", "U+1F40", "U+1F41", "U+1F42", "U+1F43", "U+1F44", "U+1F45", "U+1F51",
       "U+1F53", "U+1F55", "U+1F57", "U+1F60", "U+1F61", "U+1F62", "U+1F63", "U+1F64",
       "U+1F65", "U+1F66", "U+1F67", "U+1F80", "U+1F81", "U+1F82", "U+1F83", "U+1F84",
       "U+1F85", "U+1F86", "U+1F87", "U+1F90", "U+1F91", "U+1F92", "U+1F93", "U+1F94",
       "U+1F95", "U+1F96", "U+1F97", "U+1FA0", "U+1FA1", "U+1FA2", "U+1FA3", "U+1FA4",
       "U+1FA5", "U+1FA6", "U+1FA7", "U+1FB0", "U+1FB1", "U+1F70", "U+1F71", "U+1FB3",
       "U+1F72", "U+1F73", "U+1F74", "U+1F75", "U+1FC3", "U+1FD0", "U+1FD1", "U+1F76",
       "U+1F77", "U+1FE0", "U+1FE1", "U+1F7A", "U+1F7B", "U+1FE5", "U+1F78", "U+1F79",
       "U+1F7C", "U+1F7D", "U+1FF3", "U+03C9", "k", "U+00E5", "U+214E", "U+2170",
       "U+2171", "U+2172", "U+2173", "U+2174", "U+2175", "U+2176", "U+2177", "U+2178",
       "U+2179", "U+217A", "U+217B", "U+217C", "U+217D", "U+217E", "U+217F", "U+2184",
       "U+24D0", "U+24D1", "U+24D2", "U+24D3", "U+24D4", "U+24D5", "U+24D6", "U+24D7",
       "U+24D8", "U+24D9", "U+24DA", "U+24DB", "U+24DC", "U+24DD", "U+24DE", "U+24DF",
       "U+24E0", "U+24E1", "U+24E2", "U+24E3", "U+24E4", "U+24E5", "U+24E6", "U+24E7",
       "U+24E8", "U+24E9", "U+2C30", "U+2C31", "U+2C32", "U+2C33", "U+2C34", "U+2C35",
       "U+2C36", "U+2C37", "U+2C38", "U+2C39", "U+2C3A", "U+2C3B", "U+2C3C", "U+2C3D",
       "U+2C3E", "U+2C3F", "U+2C40", "U+2C41", "U+2C42", "U+2C43", "U+2C44", "U+2C45",
       "U+2C46", "U+2C47", "U+2C48", "U+2C49", "U+2C4A", "U+2C4B", "U+2C4C", "U+2C4D",
       "U+2C4E", "U+2C4F", "U+2C50", "U+2C51", "U+2C52", "U+2C53", "U+2C54", "U+2C55",
       "U+2C56", "U+2C57", "U+2C58", "U+2C59", "U+2C5A", "U+2C5B", "U+2C5C", "U+2C5D",
       "U+2C5E", "U+2C5F", "U+2C61", "U+026B", "U+1D7D", "U+027D", "U+2C68", "U+2C6A",
       "U+2C6C", "U+0251", "U+0271", "U+0250", "U+0252", "U+2C73", "U+2C76", "U+023F",
       "U+0240", "U+2C81", "U+2C83", "U+2C85", "U+2C87", "U+2C89", "U+2C8B", "U+2C8D",
       "U+2C8F", "U+2C91", "U+2C93", "U+2C95", "U+2C97", "U+2C99", "U+2C9B", "U+2C9D",
       "U+2C9F", "U+2CA1", "U+2CA3", "U+2CA5", "U+2CA7", "U+2CA9", "U+2CAB", "U+2CAD",
       "U+2CAF", "U+2CB1", "U+2CB3", "U+2CB5", "U+2CB7", "U+2CB9", "U+2CBB", "U+2CBD",
       "U+2CBF", "U+2CC1", "U+2CC3", "U+2CC5", "U+2CC7", "U+2CC9", "U+2CCB", "U+2CCD",
       "U+2CCF", "U+2CD1", "U+2CD3", "U+2CD5", "U+2CD7", "U+2CD9", "U+2CDB", "U+2CDD",
       "U+2CDF", "U+2CE1", "U+2CE3", "U+2CEC", "U+2CEE", "U+2CF3", "U+A641", "U+A643",
       "U+A645", "U+A647", "U+A649", "U+A64B", "U+A64D", "U+A64F", "U+A651", "U+A653",
       "U+A655", "U+A657", "U+A659", "U+A65B", "U+A65D", "U+A65F", "U+A661", "U+A663",
       "U+A665", "U+A667", "U+A669", "U+A66B", "U+A66D", "U+A681", "U+A683", "U+A685",
       "U+A687", "U+A689", "U+A68B", "U+A68D", "U+A68F", "U+A691", "U+A693", "U+A695",
       "U+A697", "U+A699", "U+A69B", "U+A723", "U+A725", "U+A727", "U+A729", "U+A72B",
       "U+A72D", "U+A72F", "U+A733", "U+A735", "U+A737", "U+A739", "U+A73B", "U+A73D",
       "U+A73F", "U+A741", "U+A743", "U+A745", "U+A747", "U+A749", "U+A74B", "U+A74D",
       "U+A74F", "U+A751", "U+A753", "U+A755", "U+A757", "U+A759", "U+A75B", "U+A75D",
       "U+A75F", "U+A761", "U+A763", "U+A765", "U+A767", "U+A769", "U+A76B", "U+A76D",
       "U+A76F", "U+A77A", "U+A77C", "U+1D79", "U+A77F", "U+A781", "U+A783", "U+A785",
       "U+A787", "U+A78C", "U+0265", "U+A791", "U+A793", "U+A797", "U+A799", "U+A79B",
       "U+A79D", "U+A79F", "U+A7A1", "U+A7A3", "U+A7A5", "U+A7A7", "U+A7A9", "U+0266",
       "U+025C", "U+0261", "U+026C", "U+026A", "U+029E", "U+0287", "U+029D", "U+AB53",
       "U+A7B5", "U+A7B7", "U+A7B9", "U+A7BB", "U+A7BD", "U+A7BF", "U+A7C1", "U+A7C3",
       "U+A794", "U+0282", "U+1D8E", "U+A7C8", "U+A7CA", "U+A7D1", "U+A7D7", "U+A7D9",
       "U+A7F6", "U+FF41", "U+FF42", "U+FF43", "U+FF44", "U+FF45", "U+FF46", "U+FF47",
       "U+FF48", "U+FF49", "U+FF4A", "U+FF4B", "U+FF4C", "U+FF4D", "U+FF4E", "U+FF4F",
       "U+FF50", "U+FF51", "U+FF52", "U+FF53", "U+FF54", "U+FF55", "U+FF56", "U+FF57",
       "U+FF58", "U+FF59", "U+FF5A", "U+10428", "U+10429", "U+1042A", "U+1042B", "U+1042C",
       "U+1042D", "U+1042E", "U+1042F", "U+10430", "U+10431", "U+10432", "U+10433", "U+10434",
       "U+10435", "U+10436", "U+10437", "U+10438", "U+10439", "U+1043A", "U+1043B", "U+1043C",
       "U+1043D", "U+1043E", "U+1043F", "U+10440", "U+10441", "U+10442", "U+10443", "U+10444",
       "U+10445", "U+10446", "U+10447", "U+10448", "U+10449", "U+1044A", "U+1044B", "U+1044C",
       "U+1044D", "U+1044E", "U+1044F", "U+104D8", "U+104D9", "U+104DA", "U+104DB", "U+104DC",
       "U+104DD", "U+104DE", "U+104DF", "U+104E0", "U+104E1", "U+104E2", "U+104E3", "U+104E4",
       "U+104E5", "U+104E6", "U+104E7", "U+104E8", "U+104E9", "U+104EA", "U+104EB", "U+104EC",
       "U+104ED", "U+104EE", "U+104EF", "U+104F0", "U+104F1", "U+104F2", "U+104F3", "U+104F4",
       "U+104F5", "U+104F6", "U+104F7", "U+104F8", "U+104F9", "U+104FA", "U+104FB", "U+10597",
       "U+10598", "U+10599", "U+1059A", "U+1059B", "U+1059C", "U+1059D", "U+1059E", "U+1059F",
       "U+105A0", "U+105A1", "U+105A3", "U+105A4", "U+105A5", "U+105A6", "U+105A7", "U+105A8",
       "U+105A9", "U+105AA", "U+105AB", "U+105AC", "U+105AD", "U+105AE", "U+105AF", "U+105B0",
       "U+105B1", "U+105B3", "U+105B4", "U+105B5", "U+105B6", "U+105B7", "U+105B8", "U+105B9",
       "U+105BB", "U+105BC", "U+10CC0", "U+10CC1", "U+10CC2", "U+10CC3", "U+10CC4", "U+10CC5",
       "U+10CC6", "U+10CC7", "U+10CC8", "U+10CC9", "U+10CCA", "U+10CCB", "U+10CCC", "U+10CCD",
       "U+10CCE", "U+10CCF", "U+10CD0", "U+10CD1", "U+10CD2", "U+10CD3", "U+10CD4", "U+10CD5",
       "U+10CD6", "U+10CD7", "U+10CD8", "U+10CD9", "U+10CDA", "U+10CDB", "U+10CDC", "U+10CDD",
       "U+10CDE", "U+10CDF", "U+10CE0", "U+10CE1", "U+10CE2", "U+10CE3", "U+10CE4", "U+10CE5",
       "U+10CE6", "U+10CE7", "U+10CE8", "U+10CE9", "U+10CEA", "U+10CEB", "U+10CEC", "U+10CED",
       "U+10CEE", "U+10CEF", "U+10CF0", "U+10CF1", "U+10CF2", "U+118C0", "U+118C1", "U+118C2",
       "U+118C3", "U+118C4", "U+118C5", "U+118C6", "U+118C7", "U+118C8", "U+118C9", "U+118CA",
       "U+118CB", "U+118CC", "U+118CD", "U+118CE", "U+118CF", "U+118D0", "U+118D1", "U+118D2",
       "U+118D3", "U+118D4", "U+118D5", "U+118D6", "U+118D7", "U+118D8", "U+118D9", "U+118DA",
       "U+118DB", "U+118DC", "U+118DD", "U+118DE", "U+118DF", "U+16E60", "U+16E61", "U+16E62",
       "U+16E63", "U+16E64", "U+16E65", "U+16E66", "U+16E67", "U+16E68", "U+16E69", "U+16E6A",
       "U+16E6B", "U+16E6C", "U+16E6D", "U+16E6E", "U+16E6F", "U+16E70", "U+16E71", "U+16E72",
       "U+16E73", "U+16E74", "U+16E75", "U+16E76", "U+16E77", "U+16E78", "U+16E79", "U+16E7A",
       "U+16E7B", "U+16E7C", "U+16E7D", "U+16E7E", "U+16E7F", "U+1E922", "U+1E923", "U+1E924",
       "U+1E925", "U+1E926", "U+1E927", "U+1E928", "U+1E929", "U+1E92A", "U+1E92B", "U+1E92C",
       "U+1E92D", "U+1E92E", "U+1E92F", "U+1E930", "U+1E931", "U+1E932", "U+1E933", "U+1E934",
       "U+1E935", "U+1E936", "U+1E937", "U+1E938", "U+1E939", "U+1E93A", "U+1E93B", "U+1E93C",
       "U+1E93D", "U+1E93E", "U+1E93F", "U+1E940", "U+1E941", "U+1E942", "U+1E943" >>

\* position of a character in a text that holds it once
IndexOf(c, s) == CHOOSE i \in 1..Len(s) : s[i] = c

\* the code points strings.ToUpper changes: a to z and those of the table
lowerSet ==
    {lowerLetters[i] : i \in 1..Len(lowerLetters)}
        \cup {toUpperFrom[i] : i \in 1..Len(toUpperFrom)}

\* the code points strings.ToLower changes: A to Z and those of the table
upperSet ==
    {upperLetters[i] : i \in 1..Len(upperLetters)}
        \cup {toLowerFrom[i] : i \in 1..Len(toLowerFrom)}

\* unicode.ToUpper on the code points it changes: an ASCII lower-case letter
\* becomes its capital, a code point of the table its entry
upperOf ==
    [c \in lowerSet |->
        IF \E i \in 1..Len(lowerLetters) : lowerLetters[i] = c
        THEN upperLetters[IndexOf(c, lowerLetters)]
        ELSE toUpperTo[IndexOf(c, toUpperFrom)]]

\* unicode.ToLower on the code points it changes: an ASCII capital becomes
\* its lower-case letter, a code point of the table its entry
lowerOf ==
    [c \in upperSet |->
        IF \E i \in 1..Len(upperLetters) : upperLetters[i] = c
        THEN lowerLetters[IndexOf(c, upperLetters)]
        ELSE toLowerTo[IndexOf(c, toLowerFrom)]]

\* unicode.ToUpper: any other character stays
ToUpperChar(c) == IF c \in lowerSet THEN upperOf[c] ELSE c

\* unicode.ToLower: any other character stays
ToLowerChar(c) == IF c \in upperSet THEN lowerOf[c] ELSE c

ToUpper(s) == [i \in 1..Len(s) |-> ToUpperChar(s[i])]

ToLower(s) == [i \in 1..Len(s) |-> ToLowerChar(s[i])]

MatchAt(s, p, i) == \A j \in 1..Len(p) : s[i + j] = p[j]

HasPrefix(s, p) == Len(p) <= Len(s) /\ MatchAt(s, p, 0)

HasSuffix(s, p) == Len(p) <= Len(s) /\ MatchAt(s, p, Len(s) - Len(p))

Contains(s, p) == \E i \in 0..(Len(s) - Len(p)) : MatchAt(s, p, i)

ContainsAny(s, chars) == \E i \in 1..Len(s) : \E j \in 1..Len(chars) : s[i] = chars[j]

Count(s, c) == Cardinality({i \in 1..Len(s) : s[i] = c})

\* -1 when c does not occur, else the 0-based index of its last occurrence
LastIndex(s, c) ==
    IF \E i \in 1..Len(s) : s[i] = c
    THEN (CHOOSE i \in 1..Len(s) : s[i] = c /\ \A k \in (i + 1)..Len(s) : s[k] # c) - 1
    ELSE -1

TrimSpace(s) ==
    IF \A i \in 1..Len(s) : IsSpace(s[i])
    THEN << >>
    ELSE LET first == CHOOSE i \in 1..Len(s) : ~IsSpace(s[i]) /\ \A k \in 1..(i - 1) : IsSpace(s[k])
             last  == CHOOSE i \in 1..Len(s) : ~IsSpace(s[i]) /\ \A k \in (i + 1)..Len(s) : IsSpace(s[k])
         IN  SubSeq(s, first, last)

\* strings.Split(s, "\n"): always at least one element
RECURSIVE SplitLines(_)
SplitLines(s) ==
    IF \E i \in 1..Len(s) : s[i] = "\n"
    THEN LET i == CHOOSE k \in 1..Len(s) : s[k] = "\n" /\ \A m \in 1..(k - 1) : s[m] # "\n"
         IN  <<SubSeq(s, 1, i - 1)>> \o SplitLines(SubSeq(s, i + 1, Len(s)))
    ELSE <<s>>

(***************************************************************************)
(* Format tags.                                                            *)
(***************************************************************************)
FormatJSON == "json"
FormatYAML == "yaml"
FormatXML == "xml"
FormatTOML == "toml"
FormatCSV == "csv"
FormatGraphQL == "graphql"
FormatINI == "ini"
FormatHCL == "hcl"
FormatProtobuf == "protobuf"
FormatMarkdown == "markdown"
FormatJSONL == "jsonl"
FormatJupyter == "jupyter"
FormatRequirements == "requirements"
FormatDockerfile == "dockerfile"
FormatAuto == "auto"
FormatUnknown == "unknown"

(***************************************************************************)
(* Content-based detection.                                                *)
(***************************************************************************)
isJupyterNotebook(trimmed) ==
    /\ HasPrefix(trimmed, <<"{">>)
    /\ Contains(trimmed, <<"\"","c","e","l","l","s","\"">>)
    /\ Contains(trimmed, <<"\"","m","e","t","a","d","a","t","a","\"">>)
    /\ Contains(trimmed, <<"\"","n","b","f","o","r","m","a","t","\"">>)

isJSONLine(line) ==
    \/ (HasPrefix(line, <<"{">>) /\ HasSuffix(line, <<"}">>))
    \/ (HasPrefix(line, <<"[">>) /\ HasSuffix(line, <<"]">>))

\* a loop that passes over a line failing the shape check instead of giving up
RECURSIVE countJSONLinesSkipping(_, _, _)
countJSONLinesSkipping(lines, i, validLines) ==
    IF i > Len(lines) THEN validLines
    ELSE LET line == TrimSpace(lines[i])
         IN  IF line = << >> \/ ~isJSONLine(line)
             THEN countJSONLinesSkipping(lines, i + 1, validLines)
             ELSE countJSONLinesSkipping(lines, i + 1, validLines + 1)

\* the loop of isJSONLines from line i on: -1 when a line fails the shape
\* check, else the number of valid lines counted
RECURSIVE countJSONLines(_, _, _)
countJSONLines(lines, i, validLines) ==
    IF i > Len(lines) THEN validLines
    ELSE LET line == TrimSpace(lines[i])
         IN  IF line = << >> THEN countJSONLines(lines, i + 1, validLines)
             ELSE IF ~isJSONLine(line) THEN -1
             ELSE countJSONLines(lines, i + 1, validLines + 1)

isJSONLines(lines) ==
    IF Len(lines) <= 1 THEN FALSE
    ELSE countJSONLines(lines, 1, 0) > 1

isJSON(trimmed) ==
    IF Len(trimmed) = 0 THEN FALSE
    ELSE \/ (HasPrefix(trimmed, <<"{">>) /\ HasSuffix(trimmed, <<"}">>))
         \/ (HasPrefix(trimmed, <<"[">>) /\ HasSuffix(trimmed, <<"]">>))

\* a JSON family that tests JSON Lines and JSON before the notebook keys
detectJSONFamilyNotebookLast(trimmed, lines) ==
    IF isJSONLines(lines) THEN FormatJSONL
    ELSE IF isJSON(trimmed) THEN FormatJSON
    ELSE IF isJupyterNotebook(trimmed) THEN FormatJupyter
    ELSE FormatUnknown

detectJSONFamily(trimmed, lines) ==
    IF isJupyterNotebook(trimmed) THEN FormatJupyter
    ELSE IF isJSONLines(lines) THEN FormatJSONL
    ELSE IF isJSON(trimmed) THEN FormatJSON
    ELSE FormatUnknown

countPatterns(text, patterns) ==
    Cardinality({i \in 1..Len(patterns) : Contains(text, patterns[i])})

dockerKeywords ==
    << <<"F","R","O","M"," ">>, <<"R","U","N"," ">>, <<"C","M","D"," ">>, <<"E","X","P","O","S","E"," ">>, <<"E","N","V"," ">>, <<"A","D","D"," ">>, <<"C","O","P","Y"," ">>,
       <<"E","N","T","R","Y","P","O","I","N","T"," ">>, <<"V","O","L","U","M","E"," ">>, <<"U","S","E","R"," ">>, <<"W","O","R","K","D","I","R"," ">>, <<"A","R","G"," ">> >>

\* a Dockerfile test that asks for a FROM and does not count keywords
isDockerfileFromOnly(upperTrimmed) == Contains(upperTrimmed, <<"F","R","O","M"," ">>)

isDockerfile(upperTrimmed) ==
    LET dockerScore == countPatterns(upperTrimmed, dockerKeywords)
    IN  Contains(upperTrimmed, <<"F","R","O","M"," ">>) \/ dockerScore >= 3

hclPatterns ==
    << <<"r","e","s","o","u","r","c","e"," ">>, <<"v","a","r","i","a","b","l","e"," ">>, <<"p","r","o","v","i","d","e","r"," ">>, <<"m","o","d","u","l","e"," ">>,
       <<"o","u","t","p","u","t"," ">>, <<"l","o","c","a","l","s"," ">>, <<"t","e","r","r","a","f","o","r","m"," ">>, <<"d","a","t","a"," ">> >>

isHCL(trimmed) ==
    LET hclScore == countPatterns(trimmed, hclPatterns)
    IN  /\ hclScore > 0
        /\ Contains(trimmed, <<"=">>)
        /\ Contains(trimmed, <<"\"">>)
        /\ Contains(trimmed, <<"{">>)

graphqlPatterns ==
    << <<"q","u","e","r","y"," ">>, <<"m","u","t","a","t","i","o","n"," ">>, <<"s","u","b","s","c","r","i","p","t","i","o","n"," ">>, <<"f","r","a","g","m","e","n","t"," ">>, <<"t","y","p","e"," ">>,
       <<"i","n","t","e","r","f","a","c","e"," ">>, <<"e","n","u","m"," ">>, <<"i","n","p","u","t"," ">>, <<"s","c","a","l","a","r"," ">>, <<"s","c","h","e","m","a"," ">> >>

\* a GraphQL test that is content with one keyword and the two braces
isGraphQLKeywordAndBraces(trimmed) ==
    LET graphqlScore == countPatterns(trimmed, graphqlPatterns)
    IN  graphqlScore > 0 /\ Contains(trimmed, <<"{">>) /\ Contains(trimmed, <<"}">>)

isGraphQL(trimmed) ==
    LET graphqlScore == countPatterns(trimmed, graphqlPatterns)
    IN  IF graphqlScore = 0 \/ ~Contains(trimmed, <<"{">>) \/ ~Contains(trimmed, <<"}">>)
        THEN FALSE
        ELSE Contains(trimmed, <<"{","\n">>) \/ Contains(trimmed, <<"{"," ">>) \/ graphqlScore >= 2

isProtobuf(trimmed) ==
    /\ (Contains(trimmed, <<"t","y","p","e","_","u","r","l",":">>) \/ Contains(trimmed, <<"v","a","l","u","e",":">>))
    /\ Contains(trimmed, <<"\"">>)

\* a developer family that tries the GraphQL predicate before the HCL one
detectDeveloperFormatsGraphQLFirst(trimmed, lines) ==
    LET upperTrimmed == ToUpper(trimmed)
    IN  IF isDockerfile(upperTrimmed) THEN FormatDockerfile
        ELSE IF isGraphQL(trimmed) THEN FormatGraphQL
        ELSE IF isHCL(trimmed) THEN FormatHCL
        ELSE IF isProtobuf(trimmed) THEN FormatProtobuf
        ELSE FormatUnknown

detectDeveloperFormats(trimmed, lines) ==
    LET upperTrimmed == ToUpper(trimmed)
    IN  IF isDockerfile(upperTrimmed) THEN FormatDockerfile
        ELSE IF isHCL(trimmed) THEN FormatHCL
        ELSE IF isGraphQL(trimmed) THEN FormatGraphQL
        ELSE IF isProtobuf(trimmed) THEN FormatProtobuf
        ELSE FormatUnknown

\* a CSV test that passes over the lines of white space as well
detectCSVSkippingBlank(trimmed, lines) ==
    IF ~Contains(trimmed, <<",">>) \/ Len(lines) <= 1 THEN FALSE
    ELSE LET firstLineCommas == Count(lines[1], ",")
         IN  IF firstLineCommas = 0 THEN FALSE
             ELSE \A i \in 2..Len(lines) :
                     i <= 5 => ~(TrimSpace(lines[i]) # << >>
                                 /\ Count(lines[i], ",") # firstLineCommas)

detectCSV(trimmed, lines) ==
    IF ~Contains(trimmed, <<",">>) \/ Len(lines) <= 1 THEN FALSE
    ELSE LET firstLineCommas == Count(lines[1], ",")
         IN  IF firstLineCommas = 0 THEN FALSE
             ELSE \A i \in 2..Len(lines) :
                     i <= 5 => ~(lines[i] # << >> /\ Count(lines[i], ",") # firstLineCommas)

detectMarkdown(trimmed, lines) ==
    IF Len(lines) = 0 THEN FALSE
    ELSE \/ HasPrefix(lines[1], <<"#">>)
         \/ Contains(trimmed, <<Backtick,Backtick,Backtick>>)
         \/ Contains(trimmed, <<"*","*">>)
         \/ Contains(trimmed, <<"~","~">>)
         \/ (Contains(trimmed, <<"[">>) /\ Contains(trimmed, <<"]","(">>))

detectRequirements(trimmed, lines) ==
    IF /\ ~Contains(trimmed, <<"=","=">>) /\ ~Contains(trimmed, <<">","=">>)
       /\ ~Contains(trimmed, <<"<","=">>) /\ ~Contains(trimmed, <<"~","=">>)
    THEN FALSE
    ELSE \E i \in 1..Len(lines) :
            LET line == TrimSpace(lines[i])
            IN  /\ line # << >>
                /\ ~HasPrefix(line, <<"#">>)
                /\ ContainsAny(line, lowerLetters)

\* a data family that tries the requirements test first
detectDataFormatsRequirementsFirst(trimmed, lines) ==
    IF detectRequirements(trimmed, lines) THEN FormatRequirements
    ELSE IF detectCSV(trimmed, lines) THEN FormatCSV
    ELSE IF detectMarkdown(trimmed, lines) THEN FormatMarkdown
    ELSE FormatUnknown

detectDataFormats(trimmed, lines) ==
    IF detectCSV(trimmed, lines) THEN FormatCSV
    ELSE IF detectMarkdown(trimmed, lines) THEN FormatMarkdown
    ELSE IF detectRequirements(trimmed, lines) THEN FormatRequirements
    ELSE FormatUnknown

isXML(trimmed) ==
    \/ HasPrefix(trimmed, <<"<","?","x","m","l">>)
    \/ (HasPrefix(trimmed, <<"<">>) /\ Contains(trimmed, <<">">>))

isINI(trimmed, lines) ==
    IF ~Contains(trimmed, <<"[">>) \/ ~Contains(trimmed, <<"]">>) THEN FALSE
    ELSE \E i \in 1..Len(lines) :
            LET line == TrimSpace(lines[i])
            IN  HasPrefix(line, <<"[">>) /\ HasSuffix(line, <<"]">>)

\* a YAML test that is content with a colon outside a URL
isYAMLAnyColon(trimmed) ==
    IF Contains(trimmed, <<"-","-","-">>) THEN TRUE
    ELSE Contains(trimmed, <<":">>) /\ ~Contains(trimmed, <<":","/","/">>)

isYAML(trimmed) ==
    IF Contains(trimmed, <<"-","-","-">>) THEN TRUE
    ELSE IF ~Contains(trimmed, <<":">>) \/ Contains(trimmed, <<":","/","/">>) THEN FALSE
    ELSE IF Contains(trimmed, <<"t","y","p","e","_","u","r","l",":">>) \/ Contains(trimmed, <<"v","a","l","u","e",":">>) THEN FALSE
    ELSE Contains(trimmed, <<":"," ">>) \/ HasSuffix(trimmed, <<":">>)

isTOML(trimmed) ==
    IF ~Contains(trimmed, <<"=">>) \/ Contains(trimmed, <<":">>) THEN FALSE
    ELSE /\ ~HasPrefix(trimmed, <<"{">>)
         /\ ~HasPrefix(trimmed, <<"[">>)
         /\ ~HasPrefix(trimmed, <<"<">>)

\* a config family that tries the YAML test before the INI one
detectConfigFormatsYAMLFirst(trimmed, lines) ==
    IF isXML(trimmed) THEN FormatXML
    ELSE IF isYAML(trimmed) THEN FormatYAML
    ELSE IF isINI(trimmed, lines) THEN FormatINI
    ELSE IF isTOML(trimmed) THEN FormatTOML
    ELSE FormatUnknown

detectConfigFormats(trimmed, lines) ==
    IF isXML(trimmed) THEN FormatXML
    ELSE IF isINI(trimmed, lines) THEN FormatINI
    ELSE IF isYAML(trimmed) THEN FormatYAML
    ELSE IF isTOML(trimmed) THEN FormatTOML
    ELSE FormatUnknown

\* a cascade that consults the data formats before the developer formats
DetectFormatRunDataFirst(bytes) ==
    LET trimmed == TrimSpace(bytes)
    IN  IF Len(trimmed) = 0
        THEN [format |-> FormatUnknown, consulted |-> << >>]
        ELSE LET lines == SplitLines(trimmed)
                 f1 == detectJSONFamily(trimmed, lines)
                 f2 == detectDataFormats(trimmed, lines)
                 f3 == detectDeveloperFormats(trimmed, lines)
                 f4 == detectConfigFormats(trimmed, lines)
             IN  IF f1 # FormatUnknown
                 THEN [format |-> f1, consulted |-> <<"json">>]
                 ELSE IF f2 # FormatUnknown
                 THEN [format |-> f2, consulted |-> <<"json", "data">>]
                 ELSE IF f3 # FormatUnknown
                 THEN [format |-> f3, consulted |-> <<"json", "data", "developer">>]
                 ELSE IF f4 # FormatUnknown
                 THEN [format |-> f4, consulted |-> <<"json", "data", "developer", "config">>]
                 ELSE [format |-> FormatUnknown,
                       consulted |-> <<"json", "data", "developer", "config">>]

\* a cascade that tests the buffer for emptiness before it trims it
DetectFormatRunUntrimmedCheck(bytes) ==
    LET trimmed == TrimSpace(bytes)
    IN  IF Len(bytes) = 0
        THEN [format |-> FormatUnknown, consulted |-> << >>]
        ELSE LET lines == SplitLines(trimmed)
                 f1 == detectJSONFamily(trimmed, lines)
                 f2 == detectDeveloperFormats(trimmed, lines)
                 f3 == detectDataFormats(trimmed, lines)
                 f4 == detectConfigFormats(trimmed, lines)
             IN  IF f1 # FormatUnknown
                 THEN [format |-> f1, consulted |-> <<"json">>]
                 ELSE IF f2 # FormatUnknown
                 THEN [format |-> f2, consulted |-> <<"json", "developer">>]
                 ELSE IF f3 # FormatUnknown
                 THEN [format |-> f3, consulted |-> <<"json", "developer", "data">>]
                 ELSE IF f4 # FormatUnknown
                 THEN [format |-> f4, consulted |-> <<"json", "developer", "data", "config">>]
                 ELSE [format |-> FormatUnknown,
                       consulted |-> <<"json", "developer", "data", "config">>]

\* The families of the cascade, in the order DetectFormat consults them.
\* DetectFormatRun returns the tag together with the families it consulted.
DetectFormatRun(bytes) ==
    LET trimmed == TrimSpace(bytes)
    IN  IF Len(trimmed) = 0
        THEN [format |-> FormatUnknown, consulted |-> << >>]
        ELSE LET lines == SplitLines(trimmed)
                 f1 == detectJSONFamily(trimmed, lines)
                 f2 == detectDeveloperFormats(trimmed, lines)
                 f3 == detectDataFormats(trimmed, lines)
                 f4 == detectConfigFormats(trimmed, lines)
             IN  IF f1 # FormatUnknown
                 THEN [format |-> f1, consulted |-> <<"json">>]
                 ELSE IF f2 # FormatUnknown
                 THEN [format |-> f2, consulted |-> <<"json", "developer">>]
                 ELSE IF f3 # FormatUnknown
                 THEN [format |-> f3, consulted |-> <<"json", "developer", "data">>]
                 ELSE IF f4 # FormatUnknown
                 THEN [format |-> f4, consulted |-> <<"json", "developer", "data", "config">>]
                 ELSE [format |-> FormatUnknown,
                       consulted |-> <<"json", "developer", "data", "config">>]

DetectFormat(bytes) == DetectFormatRun(bytes).format

(***************************************************************************)
(* Filename-based detection.                                               *)
(***************************************************************************)
\* an extension table whose entry for yml names a tag that has no validator
extensionMapYmlUnregistered ==
    { <<<<"j","s","o","n">>, FormatJSON>>, <<<<"y","a","m","l">>, FormatYAML>>, <<<<"y","m","l">>, "yml">>,
      <<<<"x","m","l">>, FormatXML>>, <<<<"t","o","m","l">>, FormatTOML>>, <<<<"c","s","v">>, FormatCSV>>,
      <<<<"g","r","a","p","h","q","l">>, FormatGraphQL>>, <<<<"g","q","l">>, FormatGraphQL>>,
      <<<<"i","n","i">>, FormatINI>>, <<<<"c","f","g">>, FormatINI>>, <<<<"c","o","n","f">>, FormatINI>>,
      <<<<"h","c","l">>, FormatHCL>>, <<<<"t","f">>, FormatHCL>>, <<<<"t","f","v","a","r","s">>, FormatHCL>>,
      <<<<"p","b">>, FormatProtobuf>>, <<<<"p","r","o","t","o">>, FormatProtobuf>>,
      <<<<"t","e","x","t","p","r","o","t","o">>, FormatProtobuf>>, <<<<"p","b","t","x","t">>, FormatProtobuf>>,
      <<<<"m","d">>, FormatMarkdown>>, <<<<"m","a","r","k","d","o","w","n">>, FormatMarkdown>>,
      <<<<"m","k","d">>, FormatMarkdown>>, <<<<"m","d","w","n">>, FormatMarkdown>>,
      <<<<"m","d","o","w","n">>, FormatMarkdown>>, <<<<"m","d","t","x","t">>, FormatMarkdown>>,
      <<<<"m","d","t","e","x","t">>, FormatMarkdown>>,
      <<<<"j","s","o","n","l">>, FormatJSONL>>, <<<<"n","d","j","s","o","n">>, FormatJSONL>>,
      <<<<"j","s","o","n","l","i","n","e","s">>, FormatJSONL>>, <<<<"i","p","y","n","b">>, FormatJupyter>>,
      <<<<"d","o","c","k","e","r","f","i","l","e">>, FormatDockerfile>>, <<<<"c","o","n","t","a","i","n","e","r","f","i","l","e">>, FormatDockerfile>> }

extensionMapLiteral ==
    { <<<<"j","s","o","n">>, FormatJSON>>, <<<<"y","a","m","l">>, FormatYAML>>, <<<<"y","m","l">>, FormatYAML>>,
      <<<<"x","m","l">>, FormatXML>>, <<<<"t","o","m","l">>, FormatTOML>>, <<<<"c","s","v">>, FormatCSV>>,
      <<<<"g","r","a","p","h","q","l">>, FormatGraphQL>>, <<<<"g","q","l">>, FormatGraphQL>>,
      <<<<"i","n","i">>, FormatINI>>, <<<<"c","f","g">>, FormatINI>>, <<<<"c","o","n","f">>, FormatINI>>,
      <<<<"h","c","l">>, FormatHCL>>, <<<<"t","f">>, FormatHCL>>, <<<<"t","f","v","a","r","s">>, FormatHCL>>,
      <<<<"p","b">>, FormatProtobuf>>, <<<<"p","r","o","t","o">>, FormatProtobuf>>,
      <<<<"t","e","x","t","p","r","o","t","o">>, FormatProtobuf>>, <<<<"p","b","t","x","t">>, FormatProtobuf>>,
      <<<<"m","d">>, FormatMarkdown>>, <<<<"m","a","r","k","d","o","w","n">>, FormatMarkdown>>,
      <<<<"m","k","d">>, FormatMarkdown>>, <<<<"m","d","w","n">>, FormatMarkdown>>,
      <<<<"m","d","o","w","n">>, FormatMarkdown>>, <<<<"m","d","t","x","t">>, FormatMarkdown>>,
      <<<<"m","d","t","e","x","t">>, FormatMarkdown>>,
      <<<<"j","s","o","n","l">>, FormatJSONL>>, <<<<"n","d","j","s","o","n">>, FormatJSONL>>,
      <<<<"j","s","o","n","l","i","n","e","s">>, FormatJSONL>>, <<<<"i","p","y","n","b">>, FormatJupyter>>,
      <<<<"d","o","c","k","e","r","f","i","l","e">>, FormatDockerfile>>, <<<<"c","o","n","t","a","i","n","e","r","f","i","l","e">>, FormatDockerfile>> }

dockerfileName == <<"d","o","c","k","e","r","f","i","l","e">>

(***************************************************************************)
(* Results, errors and validators.                                         *)
(* An error message is a record: its fixed text, the 1-based line it names *)
(* (0 when it names none) and the text that is formatted into it.          *)
(***************************************************************************)
NoError == [msg |-> "", line |-> 0, text |-> << >>]

ErrorMsg(m) == [msg |-> m, line |-> 0, text |-> << >>]

\* the validator value of a failed NewValidator
NilValidator == [kind |-> "nil", format |-> "nil"]

\* a registry that enters the requirements validator under the tag "text"
validatorMapRequirementsAsText ==
    { <<"text", [kind |-> "RequirementsValidator", format |-> "text"]>>,
      <<FormatJSON, [kind |-> "JSONValidator", format |-> FormatJSON]>>,
      <<FormatYAML, [kind |-> "YAMLValidator", format |-> FormatYAML]>>,
      <<FormatXML, [kind |-> "XMLValidator", format |-> FormatXML]>>,
      <<FormatTOML, [kind |-> "TOMLValidator", format |-> FormatTOML]>>,
      <<FormatCSV, [kind |-> "CSVValidator", format |-> FormatCSV]>>,
      <<FormatGraphQL, [kind |-> "GraphQLValidator", format |-> FormatGraphQL]>>,
      <<FormatINI, [kind |-> "INIValidator", format |-> FormatINI]>>,
      <<FormatHCL, [kind |-> "HCLValidator", format |-> FormatHCL]>>,
      <<FormatProtobuf, [kind |-> "ProtobufValidator", format |-> FormatProtobuf]>>,
      <<FormatMarkdown, [kind |-> "MarkdownValidator", format |-> FormatMarkdown]>>,
      <<FormatJSONL, [kind |-> "JSONLValidator", format |-> FormatJSONL]>>,
      <<FormatJupyter, [kind |-> "JupyterValidator", format |-> FormatJupyter]>>,
      <<FormatDockerfile, [kind |-> "DockerfileValidator", format |-> FormatDockerfile]>> }

validatorMapLiteral ==
    { <<FormatJSON, [kind |-> "JSONValidator", format |-> FormatJSON]>>,
      <<FormatYAML, [kind |-> "YAMLValidator", format |-> FormatYAML]>>,
      <<FormatXML, [kind |-> "XMLValidator", format |-> FormatXML]>>,
      <<FormatTOML, [kind |-> "TOMLValidator", format |-> FormatTOML]>>,
      <<FormatCSV, [kind |-> "CSVValidator", format |-> FormatCSV]>>,
      <<FormatGraphQL, [kind |-> "GraphQLValidator", format |-> FormatGraphQL]>>,
      <<FormatINI, [kind |-> "INIValidator", format |-> FormatINI]>>,
      <<FormatHCL, [kind |-> "HCLValidator", format |-> FormatHCL]>>,
      <<FormatProtobuf, [kind |-> "ProtobufValidator", format |-> FormatProtobuf]>>,
      <<FormatMarkdown, [kind |-> "MarkdownValidator", format |-> FormatMarkdown]>>,
      <<FormatJSONL, [kind |-> "JSONLValidator", format |-> FormatJSONL]>>,
      <<FormatJupyter, [kind |-> "JupyterValidator", format |-> FormatJupyter]>>,
      <<FormatRequirements, [kind |-> "RequirementsValidator", format |-> FormatRequirements]>>,
      <<FormatDockerfile, [kind |-> "DockerfileValidator", format |-> FormatDockerfile]>> }

(***************************************************************************)
(* The external parsers.  A parser is a function of the text it is given;  *)
(* what it answers is not decided by this package, so an oracle holds the  *)
(* answer to each question asked so far.  A question is <<parser, text>>.  *)
(* "json" is json.Unmarshal into an interface{}, "json.map" the same into  *)
(* a map, whose answer also tells which of the notebook keys the map has.  *)
(***************************************************************************)
ParseOK == [ok |-> TRUE, keys |-> {}]
ParseFail == [ok |-> FALSE, keys |-> {}]
ParseErrorText == <<"parse error">>

notebookKeys == {"cells", "metadata", "nbformat"}

Answers(q) ==
    IF q[1] = "json.map"
    THEN {ParseFail} \cup {[ok |-> TRUE, keys |-> K] : K \in SUBSET notebookKeys}
    ELSE {ParseOK, ParseFail}

Ask(oracle, parser, text) == oracle[<<parser, text>>]

\* an errorString that returns the parser's text also when there is no error
errorStringAlways(answer) == [msg |-> "", line |-> 0, text |-> ParseErrorText]

\* errorString
errorString(answer) ==
    IF answer.ok THEN NoError
    ELSE [msg |-> "", line |-> 0, text |-> ParseErrorText]

\* a Validate that takes the parser's error for success
ExternalValidateInverted(vd, parser, bytes, oracle) ==
    LET answer == Ask(oracle, parser, bytes)
    IN  [Valid |-> ~answer.ok, Format |-> vd.format, Error |-> errorString(answer)]

\* the Validate methods that only call an external parser
ExternalValidate(vd, parser, bytes, oracle) ==
    LET answer == Ask(oracle, parser, bytes)
    IN  [Valid |-> answer.ok, Format |-> vd.format, Error |-> errorString(answer)]

\* HCLValidator.Validate: the parser returns diagnostics, whose text is the
\* error only when they hold errors
HCLValidate(vd, bytes, oracle) ==
    LET diags == Ask(oracle, "hcl", bytes)
        errStr == IF ~diags.ok
                  THEN [msg |-> "", line |-> 0, text |-> ParseErrorText]
                  ELSE NoError
    IN  [Valid |-> diags.ok, Format |-> vd.format, Error |-> errStr]

GraphQLValidate(vd, bytes, oracle) ==
    IF Len(bytes) = 0
    THEN [Valid |-> FALSE, Format |-> vd.format, Error |-> ErrorMsg("empty GraphQL content")]
    ELSE ExternalValidate(vd, "graphql", bytes, oracle)

\* a loop that numbers the failing line among the non-blank lines only
RECURSIVE JSONLScanCountingNonBlank(_, _, _, _)
JSONLScanCountingNonBlank(vd, lines, i, oracle) ==
    IF i > Len(lines)
    THEN [Valid |-> TRUE, Format |-> vd.format, Error |-> NoError]
    ELSE LET line == TrimSpace(lines[i])
         IN  IF line = << >> THEN JSONLScanCountingNonBlank(vd, lines, i + 1, oracle)
             ELSE IF ~Ask(oracle, "json", line).ok
             THEN [Valid |-> FALSE, Format |-> vd.format,
                   Error |-> [msg |-> "invalid JSON on line",
                              line |-> Cardinality({k \in 1..i : TrimSpace(lines[k]) # << >>}),
                              text |-> ParseErrorText]]
             ELSE JSONLScanCountingNonBlank(vd, lines, i + 1, oracle)

\* the loop of JSONLValidator.Validate from line i on
RECURSIVE JSONLScan(_, _, _, _)
JSONLScan(vd, lines, i, oracle) ==
    IF i > Len(lines)
    THEN [Valid |-> TRUE, Format |-> vd.format, Error |-> NoError]
    ELSE LET line == TrimSpace(lines[i])
         IN  IF line = << >> THEN JSONLScan(vd, lines, i + 1, oracle)
             ELSE IF ~Ask(oracle, "json", line).ok
             THEN [Valid |-> FALSE, Format |-> vd.format,
                   Error |-> [msg |-> "invalid JSON on line", line |-> i,
                              text |-> ParseErrorText]]
             ELSE JSONLScan(vd, lines, i + 1, oracle)

JSONLValidate(vd, bytes, oracle) ==
    IF Len(bytes) = 0
    THEN [Valid |-> TRUE, Format |-> vd.format, Error |-> NoError]
    ELSE JSONLScan(vd, SplitLines(bytes), 1, oracle)

\* a Jupyter validator that looks for nbformat before cells and metadata
JupyterValidateNbformatFirst(vd, bytes, oracle) ==
    LET notebook == Ask(oracle, "json.map", bytes)
    IN  IF ~notebook.ok
        THEN [Valid |-> FALSE, Format |-> vd.format,
              Error |-> [msg |-> "invalid JSON: ", line |-> 0, text |-> ParseErrorText]]
        ELSE IF "nbformat" \notin notebook.keys
        THEN [Valid |-> FALSE, Format |-> vd.format,
              Error |-> ErrorMsg("missing required field: nbformat")]
        ELSE IF "cells" \notin notebook.keys
        THEN [Valid |-> FALSE, Format |-> vd.format,
              Error |-> ErrorMsg("missing required field: cells")]
        ELSE IF "metadata" \notin notebook.keys
        THEN [Valid |-> FALSE, Format |-> vd.format,
              Error |-> ErrorMsg("missing required field: metadata")]
        ELSE [Valid |-> TRUE, Format |-> vd.format, Error |-> NoError]

JupyterValidate(vd, bytes, oracle) ==
    LET notebook == Ask(oracle, "json.map", bytes)
    IN  IF ~notebook.ok
        THEN [Valid |-> FALSE, Format |-> vd.format,
              Error |-> [msg |-> "invalid JSON: ", line |-> 0, text |-> ParseErrorText]]
        ELSE IF "cells" \notin notebook.keys
        THEN [Valid |-> FALSE, Format |-> vd.format,
              Error |-> ErrorMsg("missing required field: cells")]
        ELSE IF "metadata" \notin notebook.keys
        THEN [Valid |-> FALSE, Format |-> vd.format,
              Error |-> ErrorMsg("missing required field: metadata")]
        ELSE IF "nbformat" \notin notebook.keys
        THEN [Valid |-> FALSE, Format |-> vd.format,
              Error |-> ErrorMsg("missing required field: nbformat")]
        ELSE [Valid |-> TRUE, Format |-> vd.format, Error |-> NoError]

requirementChars == lowerLetters \o upperLetters \o <<"0","1","2","3","4","5","6","7","8","9","_","-">>

\* the loop of RequirementsValidator.Validate from line i on
RECURSIVE RequirementsScan(_, _, _)
RequirementsScan(vd, lines, i) ==
    IF i > Len(lines)
    THEN [Valid |-> TRUE, Format |-> vd.format, Error |-> NoError]
    ELSE LET line == TrimSpace(lines[i])
         IN  IF line = << >> \/ HasPrefix(line, <<"#">>)
             THEN RequirementsScan(vd, lines, i + 1)
             ELSE IF ~ContainsAny(line, requirementChars)
             THEN [Valid |-> FALSE, Format |-> vd.format,
                   Error |-> [msg |-> "invalid requirement on line", line |-> i,
                              text |-> line]]
             ELSE RequirementsScan(vd, lines, i + 1)

RequirementsValidate(vd, bytes) == RequirementsScan(vd, SplitLines(bytes), 1)

validInstructions ==
    << <<"F","R","O","M">>, <<"R","U","N">>, <<"C","M","D">>, <<"L","A","B","E","L">>, <<"E","X","P","O","S","E">>, <<"E","N","V">>, <<"A","D","D">>, <<"C","O","P","Y">>,
       <<"E","N","T","R","Y","P","O","I","N","T">>, <<"V","O","L","U","M","E">>, <<"U","S","E","R">>, <<"W","O","R","K","D","I","R">>, <<"A","R","G">>, <<"O","N","B","U","I","L","D">>,
       <<"S","T","O","P","S","I","G","N","A","L">>, <<"H","E","A","L","T","H","C","H","E","C","K">>, <<"S","H","E","L","L">> >>

hasValidInstruction(upperLine) ==
    \E k \in 1..Len(validInstructions) :
        \/ HasPrefix(upperLine, validInstructions[k] \o <<" ">>)
        \/ upperLine = validInstructions[k]

\* a loop that does not ask for a FROM instruction at its end
RECURSIVE DockerfileScanFromOptional(_, _, _, _)
DockerfileScanFromOptional(vd, lines, i, hasFrom) ==
    IF i > Len(lines)
    THEN [Valid |-> TRUE, Format |-> vd.format, Error |-> NoError]
    ELSE LET line == TrimSpace(lines[i])
             upperLine == ToUpper(line)
             from == hasFrom \/ HasPrefix(upperLine, <<"F","R","O","M"," ">>)
         IN  IF line = << >> \/ HasPrefix(line, <<"#">>)
             THEN DockerfileScanFromOptional(vd, lines, i + 1, hasFrom)
             ELSE IF i > 1 /\ HasSuffix(lines[i - 1], <<"\\">>)
             THEN DockerfileScanFromOptional(vd, lines, i + 1, from)
             ELSE IF ~hasValidInstruction(upperLine)
             THEN [Valid |-> FALSE, Format |-> vd.format,
                   Error |-> [msg |-> "invalid instruction on line", line |-> i,
                              text |-> line]]
             ELSE DockerfileScanFromOptional(vd, lines, i + 1, from)

\* a loop that passes over a continuation line before it looks for FROM
RECURSIVE DockerfileScanContinuationFirst(_, _, _, _)
DockerfileScanContinuationFirst(vd, lines, i, hasFrom) ==
    IF i > Len(lines)
    THEN IF ~hasFrom
         THEN [Valid |-> FALSE, Format |-> vd.format,
               Error |-> ErrorMsg("missing required FROM instruction")]
         ELSE [Valid |-> TRUE, Format |-> vd.format, Error |-> NoError]
    ELSE LET line == TrimSpace(lines[i])
             upperLine == ToUpper(line)
             from == hasFrom \/ HasPrefix(upperLine, <<"F","R","O","M"," ">>)
         IN  IF line = << >> \/ HasPrefix(line, <<"#">>)
             THEN DockerfileScanContinuationFirst(vd, lines, i + 1, hasFrom)
             ELSE IF i > 1 /\ HasSuffix(lines[i - 1], <<"\\">>)
             THEN DockerfileScanContinuationFirst(vd, lines, i + 1, hasFrom)
             ELSE IF ~hasValidInstruction(upperLine)
             THEN [Valid |-> FALSE, Format |-> vd.format,
                   Error |-> [msg |-> "invalid instruction on line", line |-> i,
                              text |-> line]]
             ELSE DockerfileScanContinuationFirst(vd, lines, i + 1, from)

\* a loop that holds a continuation line to the instruction test as well
RECURSIVE DockerfileScanStrict(_, _, _, _)
DockerfileScanStrict(vd, lines, i, hasFrom) ==
    IF i > Len(lines)
    THEN IF ~hasFrom
         THEN [Valid |-> FALSE, Format |-> vd.format,
               Error |-> ErrorMsg("missing required FROM instruction")]
         ELSE [Valid |-> TRUE, Format |-> vd.format, Error |-> NoError]
    ELSE LET line == TrimSpace(lines[i])
             upperLine == ToUpper(line)
             from == hasFrom \/ HasPrefix(upperLine, <<"F","R","O","M"," ">>)
         IN  IF line = << >> \/ HasPrefix(line, <<"#">>)
             THEN DockerfileScanStrict(vd, lines, i + 1, hasFrom)
             ELSE IF ~hasValidInstruction(upperLine)
             THEN [Valid |-> FALSE, Format |-> vd.format,
                   Error |-> [msg |-> "invalid instruction on line", line |-> i,
                              text |-> line]]
             ELSE DockerfileScanStrict(vd, lines, i + 1, from)

\* the loop of DockerfileValidator.Validate from line i on
RECURSIVE DockerfileScan(_, _, _, _)
DockerfileScan(vd, lines, i, hasFrom) ==
    IF i > Len(lines)
    THEN IF ~hasFrom
         THEN [Valid |-> FALSE, Format |-> vd.format,
               Error |-> ErrorMsg("missing required FROM instruction")]
         ELSE [Valid |-> TRUE, Format |-> vd.format, Error |-> NoError]
    ELSE LET line == TrimSpace(lines[i])
             upperLine == ToUpper(line)
             from == hasFrom \/ HasPrefix(upperLine, <<"F","R","O","M"," ">>)
         IN  IF line = << >> \/ HasPrefix(line, <<"#">>)
             THEN DockerfileScan(vd, lines, i + 1, hasFrom)
             ELSE IF i > 1 /\ HasSuffix(lines[i - 1], <<"\\">>)
             THEN DockerfileScan(vd, lines, i + 1, from)
             ELSE IF ~hasValidInstruction(upperLine)
             THEN [Valid |-> FALSE, Format |-> vd.format,
                   Error |-> [msg |-> "invalid instruction on line", line |-> i,
                              text |-> line]]
             ELSE DockerfileScan(vd, lines, i + 1, from)

DockerfileValidate(vd, bytes) == DockerfileScan(vd, SplitLines(bytes), 1, FALSE)

\* the external parser each kind of validator calls
parserOf(kind) ==
    CASE kind = "JSONValidator" -> "json"
      [] kind = "YAMLValidator" -> "yaml"
      [] kind = "XMLValidator" -> "xml"
      [] kind = "TOMLValidator" -> "toml"
      [] kind = "CSVValidator" -> "csv"
      [] kind = "INIValidator" -> "ini"
      [] kind = "HCLValidator" -> "hcl"
      [] kind = "ProtobufValidator" -> "protobuf"
      [] kind = "MarkdownValidator" -> "markdown"
      [] OTHER -> "none"

\* vd.Validate(bytes), dispatched on the validator's type
Validate(vd, bytes, oracle) ==
    CASE vd.kind = "GraphQLValidator" -> GraphQLValidate(vd, bytes, oracle)
      [] vd.kind = "HCLValidator" -> HCLValidate(vd, bytes, oracle)
      [] vd.kind = "JSONLValidator" -> JSONLValidate(vd, bytes, oracle)
      [] vd.kind = "JupyterValidator" -> JupyterValidate(vd, bytes, oracle)
      [] vd.kind = "RequirementsValidator" -> RequirementsValidate(vd, bytes)
      [] vd.kind = "DockerfileValidator" -> DockerfileValidate(vd, bytes)
      [] OTHER -> ExternalValidate(vd, parserOf(vd.kind), bytes, oracle)

\* vd.ValidateString(text): Validate([]byte(text)); a character of the model
\* is one byte, so the conversion keeps the sequence
ValidateString(vd, text, oracle) == Validate(vd, text, oracle)

\* the questions vd.Validate(bytes) may put to the external parsers
Questions(vd, bytes) ==
    CASE vd.kind = "GraphQLValidator" ->
            IF Len(bytes) = 0 THEN {} ELSE {<<"graphql", bytes>>}
      [] vd.kind = "JSONLValidator" ->
            IF Len(bytes) = 0 THEN {}
            ELSE LET lines == SplitLines(bytes)
                 IN  {<<"json", TrimSpace(lines[i])>> :
                         i \in {k \in 1..Len(lines) : TrimSpace(lines[k]) # << >>}}
      [] vd.kind = "JupyterValidator" -> {<<"json.map", bytes>>}
      [] vd.kind \in {"RequirementsValidator", "DockerfileValidator", "nil"} -> {}
      [] OTHER -> {<<parserOf(vd.kind), bytes>>}

\* the questions the loop of JSONLValidator.Validate puts from line i on: it
\* stops at the first line the parser rejects
RECURSIVE JSONLAsked(_, _, _)
JSONLAsked(lines, i, oracle) ==
    IF i > Len(lines) THEN {}
    ELSE LET line == TrimSpace(lines[i])
         IN  IF line = << >> THEN JSONLAsked(lines, i + 1, oracle)
             ELSE IF ~Ask(oracle, "json", line).ok THEN {<<"json", line>>}
             ELSE {<<"json", line>>} \cup JSONLAsked(lines, i + 1, oracle)

\* the questions vd.Validate(bytes) does put to the parsers, given their answers
Asked(vd, bytes, oracle) ==
    IF vd.kind = "JSONLValidator"
    THEN IF Len(bytes) = 0 THEN {} ELSE JSONLAsked(SplitLines(bytes), 1, oracle)
    ELSE Questions(vd, bytes)

\* the oracle after a call: what it held before and the answers the call got
Recorded(before, orc, asked) ==
    [q \in DOMAIN before \cup asked |-> orc[q]]

(***************************************************************************)
(* The state: the two package-level tables, the caller's inputs and the    *)
(* validator it holds, and what the calls made so far returned.            *)
(***************************************************************************)
VARIABLES
    extensionMap,   \* package variable: set of <<extension, tag>>
    validatorMap,   \* package variable: set of <<tag, validator it constructs>>
    data,           \* the caller's byte buffer
    filename,       \* the caller's file name
    oracle,         \* the external parsers' answers to the questions asked so far
    v,              \* the validator the caller holds, NilValidator when none
    made,           \* the last NewValidator: the tag asked for, the error returned
    detected,       \* the last detection call: its kind, input, tag and the
                    \* families it consulted
    result,         \* the Result returned by the last Validate or ValidateString
    autoResult,     \* the Result returned by the last ValidateAuto
    checked         \* the formats whose Validate the last ValidateAuto invoked

vars == <<extensionMap, validatorMap, data, filename, oracle, v, made, detected,
          result, autoResult, checked>>

NoResult == [Valid |-> FALSE, Format |-> "none", Error |-> NoError]

NoDetection == [kind |-> "none", input |-> << >>, format |-> "none", consulted |-> << >>]

\* a filename detection that seeks "requirements" in the base name only
DetectFormatFromFilenameBaseOnly(name) ==
    LET baseName == ToLower(SubSeq(name, LastIndex(name, "/") + 2, Len(name)))
        lastDot == LastIndex(name, ".")
        ext == ToLower(SubSeq(name, lastDot + 2, Len(name)))
    IN  IF baseName = dockerfileName \/ HasPrefix(baseName, dockerfileName \o <<".">>)
        THEN FormatDockerfile
        ELSE IF lastDot = -1 THEN FormatUnknown
        ELSE IF ext = <<"t","x","t">> /\ Contains(baseName, <<"r","e","q","u","i","r","e","m","e","n","t","s">>)
        THEN FormatRequirements
        ELSE IF \E e \in extensionMap : e[1] = ext
        THEN (CHOOSE e \in extensionMap : e[1] = ext)[2]
        ELSE FormatUnknown

\* a filename detection that looks the extension up as it is written
DetectFormatFromFilenameCaseSensitive(name) ==
    LET baseName == ToLower(SubSeq(name, LastIndex(name, "/") + 2, Len(name)))
        lastDot == LastIndex(name, ".")
        ext == SubSeq(name, lastDot + 2, Len(name))
    IN  IF baseName = dockerfileName \/ HasPrefix(baseName, dockerfileName \o <<".">>)
        THEN FormatDockerfile
        ELSE IF lastDot = -1 THEN FormatUnknown
        ELSE IF ToLower(ext) = <<"t","x","t">> /\ Contains(ToLower(name), <<"r","e","q","u","i","r","e","m","e","n","t","s">>)
        THEN FormatRequirements
        ELSE IF \E e \in extensionMap : e[1] = ext
        THEN (CHOOSE e \in extensionMap : e[1] = ext)[2]
        ELSE FormatUnknown

\* a filename detection that looks the extension up before it tests for the
\* Dockerfile name
DetectFormatFromFilenameExtensionFirst(name) ==
    LET baseName == ToLower(SubSeq(name, LastIndex(name, "/") + 2, Len(name)))
        lastDot == LastIndex(name, ".")
        ext == ToLower(SubSeq(name, lastDot + 2, Len(name)))
    IN  IF lastDot # -1 /\ ext = <<"t","x","t">> /\ Contains(ToLower(name), <<"r","e","q","u","i","r","e","m","e","n","t","s">>)
        THEN FormatRequirements
        ELSE IF lastDot # -1 /\ \E e \in extensionMap : e[1] = ext
        THEN (CHOOSE e \in extensionMap : e[1] = ext)[2]
        ELSE IF baseName = dockerfileName \/ HasPrefix(baseName, dockerfileName \o <<".">>)
        THEN FormatDockerfile
        ELSE FormatUnknown

DetectFormatFromFilename(name) ==
    LET baseName == ToLower(SubSeq(name, LastIndex(name, "/") + 2, Len(name)))
        lastDot == LastIndex(name, ".")
        ext == ToLower(SubSeq(name, lastDot + 2, Len(name)))
    IN  IF baseName = dockerfileName \/ HasPrefix(baseName, dockerfileName \o <<".">>)
        THEN FormatDockerfile
        ELSE IF lastDot = -1 THEN FormatUnknown
        ELSE IF ext = <<"t","x","t">> /\ Contains(ToLower(name), <<"r","e","q","u","i","r","e","m","e","n","t","s">>)
        THEN FormatRequirements
        ELSE IF \E e \in extensionMap : e[1] = ext
        THEN (CHOOSE e \in extensionMap : e[1] = ext)[2]
        ELSE FormatUnknown

\* a NewValidator that falls back to the JSON validator for a tag it does not know
NewValidatorDefaulting(tag) ==
    IF \E e \in validatorMap : e[1] = tag
    THEN [validator |-> (CHOOSE e \in validatorMap : e[1] = tag)[2], err |-> NoError]
    ELSE [validator |-> [kind |-> "JSONValidator", format |-> FormatJSON],
          err |-> NoError]

\* NewValidator: the validator and the error it returns
NewValidator(tag) ==
    IF \E e \in validatorMap : e[1] = tag
    THEN [validator |-> (CHOOSE e \in validatorMap : e[1] = tag)[2], err |-> NoError]
    ELSE [validator |-> NilValidator,
          err |-> [msg |-> "unsupported format: ", line |-> 0, text |-> <<tag>>]]

\* a ValidateAuto that hands a buffer of unknown format to the Dockerfile validator
ValidateAutoFromGuessing(fmt, bytes, orc) ==
    LET new == NewValidator(IF fmt = FormatUnknown THEN FormatDockerfile ELSE fmt)
    IN  IF new.err # NoError
        THEN [result |-> [Valid |-> FALSE, Format |-> fmt, Error |-> new.err],
              checked |-> << >>]
        ELSE [result |-> Validate(new.validator, bytes, orc),
              checked |-> <<new.validator.format>>]

\* a ValidateAuto that reports a buffer its format's validator rejects as
\* one of unknown format
ValidateAutoFromGivingUp(fmt, bytes, orc) ==
    LET new == NewValidator(fmt)
        res == Validate(new.validator, bytes, orc)
    IN  IF fmt = FormatUnknown
        THEN [result |-> [Valid |-> FALSE, Format |-> FormatUnknown,
                          Error |-> ErrorMsg("unable to detect format")],
              checked |-> << >>]
        ELSE IF new.err # NoError
        THEN [result |-> [Valid |-> FALSE, Format |-> fmt, Error |-> new.err],
              checked |-> << >>]
        ELSE IF res.Valid
        THEN [result |-> res, checked |-> <<new.validator.format>>]
        ELSE [result |-> [Valid |-> FALSE, Format |-> FormatUnknown,
                          Error |-> ErrorMsg("unable to detect format")],
              checked |-> <<new.validator.format>>]

\* ValidateAuto after its first line, fmt being what DetectFormat returned:
\* the Result and the formats whose Validate it invoked
ValidateAutoFrom(fmt, bytes, orc) ==
    LET new == NewValidator(fmt)
    IN  IF fmt = FormatUnknown
        THEN [result |-> [Valid |-> FALSE, Format |-> FormatUnknown,
                          Error |-> ErrorMsg("unable to detect format")],
              checked |-> << >>]
        ELSE IF new.err # NoError
        THEN [result |-> [Valid |-> FALSE, Format |-> fmt, Error |-> new.err],
              checked |-> << >>]
        ELSE [result |-> Validate(new.validator, bytes, orc),
              checked |-> <<new.validator.format>>]

ValidateAutoRun(bytes, orc) == ValidateAutoFrom(DetectFormat(bytes), bytes, orc)

ValidateAuto(bytes, orc) == ValidateAutoRun(bytes, orc).result

\* the questions ValidateAuto may put to the external parsers once
\* DetectFormat has returned fmt
AutoQuestions(fmt, bytes) == Questions(NewValidator(fmt).validator, bytes)

\* the oracles that extend orc with an answer to every question of Q
Extensions(orc, Q) ==
    LET new == Q \ DOMAIN orc
        all == UNION {Answers(q) : q \in new}
    IN  { [q \in DOMAIN orc \cup new |-> IF q \in DOMAIN orc THEN orc[q] ELSE f[q]] :
            f \in {g \in [new -> all] : \A q \in new : g[q] \in Answers(q)} }

EmptyOracle == [q \in {} |-> ParseOK]

\* the tags a caller may pass to NewValidator
Tags ==
    {e[1] : e \in validatorMapLiteral} \cup {FormatAuto, FormatUnknown, "invalid", "JSON"}

(***************************************************************************)
(* The calls of the public surface.                                        *)
(***************************************************************************)
CallDetectFormat ==
    LET run == DetectFormatRun(data)
    IN  /\ detected' = [kind |-> "bytes", input |-> data, format |-> run.format,
                        consulted |-> run.consulted]
        /\ UNCHANGED <<extensionMap, validatorMap, data, filename, oracle, v, made,
                       result, autoResult, checked>>

CallDetectFormatFromFilename ==
    /\ detected' = [kind |-> "name", input |-> filename,
                    format |-> DetectFormatFromFilename(filename), consulted |-> << >>]
    /\ UNCHANGED <<extensionMap, validatorMap, data, filename, oracle, v, made,
                   result, autoResult, checked>>

CallValidateAuto ==
    LET fmt == DetectFormat(data)
    IN  \E orc \in Extensions(oracle, AutoQuestions(fmt, data)) :
            LET run == ValidateAutoFrom(fmt, data, orc)
            IN  /\ oracle' = Recorded(oracle, orc, Asked(NewValidator(fmt).validator, data, orc))
                /\ autoResult' = run.result
                /\ checked' = run.checked
                /\ UNCHANGED <<extensionMap, validatorMap, data, filename, v, made,
                               detected, result>>

CallNewValidator(tag) ==
    LET new == NewValidator(tag)
    IN  /\ v' = new.validator
        /\ made' = [tag |-> tag, err |-> new.err]
        /\ UNCHANGED <<extensionMap, validatorMap, data, filename, oracle, detected,
                       result, autoResult, checked>>

CallValidate ==
    /\ v # NilValidator
    /\ \E orc \in Extensions(oracle, Questions(v, data)) :
        /\ oracle' = Recorded(oracle, orc, Asked(v, data, orc))
        /\ result' = Validate(v, data, orc)
        /\ UNCHANGED <<extensionMap, validatorMap, data, filename, v, made, detected,
                       autoResult, checked>>

CallValidateString ==
    /\ v # NilValidator
    /\ \E orc \in Extensions(oracle, Questions(v, data)) :
        /\ oracle' = Recorded(oracle, orc, Asked(v, data, orc))
        /\ result' = ValidateString(v, data, orc)
        /\ UNCHANGED <<extensionMap, validatorMap, data, filename, v, made, detected,
                       autoResult, checked>>

InitState ==
    /\ extensionMap = extensionMapLiteral
    /\ validatorMap = validatorMapLiteral
    /\ oracle = EmptyOracle
    /\ v = NilValidator
    /\ made = [tag |-> "none", err |-> NoError]
    /\ detected = NoDetection
    /\ result = NoResult
    /\ autoResult = NoResult
    /\ checked = << >>

(***************************************************************************)
(* Inputs.  A text is the concatenation of at most MaxFrags fragments, or  *)
(* at most MaxLines lines joined by newlines.                              *)
(***************************************************************************)
MaxFrags == 3
MaxLines == 3

RECURSIVE Flatten(_)
Flatten(ss) == IF ss = << >> THEN << >> ELSE Head(ss) \o Flatten(Tail(ss))

RECURSIVE Join(_)
Join(ls) ==
    IF Len(ls) = 1 THEN Head(ls) ELSE Head(ls) \o <<"\n">> \o Join(Tail(ls))

Texts(frags, n) == {Flatten(s) : s \in UNION {[1..k -> frags] : k \in 0..n}}

LineTexts(lineSet, n) == {Join(s) : s \in UNION {[1..k -> lineSet] : k \in 1..n}}

\* fragments that meet the predicates of all four families
CascadeFrags ==
    { <<"[","s","]">>, <<"F","R","O","M"," ">>, <<"d","a","t","a"," ","=","\"","{">>, <<"v","a","l","u","e",":","\"">>, <<"*","*">>, <<"=","=","a">>, <<":"," ">>, <<"\n">>, <<",">> }

\* lines for the JSON family: blank (a no-break space), wrapped behind a
\* vertical tab, unwrapped, with notebook keys
JSONLineSet ==
    { <<"U+00A0">>, <<"{","}">>, <<"U+000B","[","]">>, <<"[","}">>,
      <<"{","\"","c","e","l","l","s","\"","\"","m","e","t","a","d","a","t","a","\"">>, <<"\"","n","b","f","o","r","m","a","t","\"","}">>, <<"{","\"","n","b","f","o","r","m","a","t","\"","}">>, <<"{","\"","c","e","l","l","s","\"","\"","m","e","t","a","d","a","t","a","\"","}">> }

\* a buffer that DetectFormat gives each of the 14 tags, three that it gives
\* none, and two with white space outside ASCII
DispatchBuffers ==
    { <<"{","\"","a","\"",":","1","}">>, <<"k",":"," ","1">>, <<"<","a",">","<","/","a",">">>, <<"K"," ","="," ","1">>, <<"a",",","b","\n","c",",","d">>, <<"t","y","p","e"," ","T"," ","{"," ","}">>, <<"[","s","]","\n","k","=","1">>,
      <<"d","a","t","a"," ","\"","a","\""," ","{","\n"," "," ","b"," ","="," ","\"","c","\"","\n","}">>, <<"v","a","l","u","e",":"," ","\"","a","\"">>, <<"#"," ","t">>, <<"{","}","\n","{","}">>,
      <<"{","\"","c","e","l","l","s","\"",":","[","]",",","\"","m","e","t","a","d","a","t","a","\"",":","{","}",",","\"","n","b","f","o","r","m","a","t","\"",":","4","}">>, <<"a","=","=","1">>, <<"F","R","O","M"," ","a","\n","R","U","N"," ","b">>,
      <<>>, <<" ","\t","\r","\n","U+000B","U+00A0">>, <<"x">>, <<"U+000B","{","\"","a","\"",":","1","}","U+0085">>, <<"a","=","=","1","\n","U+000B","\n","!">> }

\* parts of file names: the Dockerfile name with a capital and with a Kelvin
\* sign for its k, separators, extensions in either case
NameFrags ==
    { <<"D","o","c","k","e","r","f","i","l","e">>, <<"d","o","c","U+212A","e","r","f","i","l","e">>, <<".">>, <<"/">>, <<".","j","s","o","n">>, <<".","J","S","O","N">>, <<".","t","x","t">>, <<".","p","r","o","d">>,
      <<"r","e","q","u","i","r","e","m","e","n","t","s">>, <<"x">>, <<".","y","m","l">>, <<"d","o","c","k","e","r">>, <<".","T","X","T">>, <<"R","e","q","u","i","r","e","m","e","n","t","s">> }

(***************************************************************************)
(* Content detection and auto-validation over the cascade fragments.       *)
(***************************************************************************)
Init ==
    /\ InitState
    /\ filename = << >>
    /\ data \in Texts(CascadeFrags, MaxFrags) \cup DispatchBuffers

Next == CallDetectFormat \/ CallValidateAuto

Spec == Init /\ [][Next]_vars

\* the same calls over the lines of the JSON family
InitJSON == InitState /\ filename = << >> /\ data \in LineTexts(JSONLineSet, MaxLines)

JSONSpec == InitJSON /\ [][Next]_vars

(***************************************************************************)
(* Filename detection.                                                     *)
(***************************************************************************)
InitFilename == InitState /\ data = << >> /\ filename \in Texts(NameFrags, MaxFrags)

NextFilename == CallDetectFormatFromFilename

FilenameSpec == InitFilename /\ [][NextFilename]_vars

(***************************************************************************)
(* The registry and the validators: every call on one buffer.              *)
(***************************************************************************)
InitDispatch == InitState /\ filename = << >> /\ data \in DispatchBuffers

\* this caller asks for the validator of the format it detects in its buffer,
\* as the command line's auto mode does, or for one of a few fixed tags
DispatchTags == {FormatJSON, FormatDockerfile, FormatAuto}

NextDispatch ==
    \/ \E tag \in DispatchTags \cup {DetectFormat(data)} : CallNewValidator(tag)
    \/ CallValidate
    \/ CallValidateString
    \/ CallValidateAuto

DispatchSpec == InitDispatch /\ [][NextDispatch]_vars
(***************************************************************************)
(* The registry: NewValidator for every tag, beside filename detection.    *)
(***************************************************************************)
RegistryNames ==
    { <<"a",".","j","s","o","n">>, <<"D","o","c","k","e","r","f","i","l","e">>, <<"x">>, <<"a","/","r","e","q","u","i","r","e","m","e","n","t","s",".","t","x","t">>, <<"b",".","T","F">>, <<"n","o","t","e","s",".","t","x","t">>, <<"c",".","i","p","y","n","b">>,
      <<"d",".">> }

InitRegistry == InitState /\ data = << >> /\ filename \in RegistryNames

NextRegistry ==
    \/ \E tag \in Tags : CallNewValidator(tag)
    \/ CallDetectFormatFromFilename

RegistrySpec == InitRegistry /\ [][NextRegistry]_vars

(***************************************************************************)
(* The Dockerfile validator over buffers of a few lines.                   *)
(***************************************************************************)
\* lines for the Dockerfile validator: blank, comment, instructions in either
\* case and behind a vertical tab, a bare keyword, lines that are no
\* instruction, lines that end in a backslash or in a backslash and a
\* no-break space
DockerLineSet ==
    { <<>>, <<"#"," ","F","R","O","M"," ","a">>, <<"F","R","O","M"," ","a">>, <<"r","u","n"," ","b"," ","\\">>, <<"x">>, <<"F","R","O","M">>, <<"U+000B","f","r","o","m"," ","a">>, <<"R","U","N"," ","b","\\","U+00A0">>, <<"\\">> }

InitDocker == InitState /\ filename = << >> /\ data \in LineTexts(DockerLineSet, MaxLines)

NextDocker ==
    \/ CallNewValidator(FormatDockerfile)
    \/ CallValidate
    \/ CallValidateString

DockerSpec == InitDocker /\ [][NextDocker]_vars

(***************************************************************************)
(* The JSON Lines validator over buffers of a few lines.                   *)
(***************************************************************************)
\* lines for the JSON Lines validator: blank ones (empty, a no-break space),
\* and texts the JSON parser may accept or reject, bare and between a vertical
\* tab and a next-line character
JSONLValidatorLineSet == { <<>>, <<"U+00A0">>, <<"a">>, <<"b">>, <<"U+000B","a","U+0085">> }

InitJSONL ==
    InitState /\ filename = << >> /\ data \in LineTexts(JSONLValidatorLineSet, MaxLines)

NextJSONL ==
    \/ CallNewValidator(FormatJSONL)
    \/ CallValidate
    \/ CallValidateString

JSONLSpec == InitJSONL /\ [][NextJSONL]_vars

(***************************************************************************)
(* Every validator on every buffer: the caller builds one validator, of    *)
(* any tag, and validates its buffer with it and with ValidateAuto.        *)
(***************************************************************************)
InitValidators == InitState /\ filename = << >> /\ data \in DispatchBuffers

NextValidators ==
    \/ (v = NilValidator /\ \E tag \in Tags : CallNewValidator(tag))
    \/ CallValidate
    \/ CallValidateString
    \/ CallValidateAuto

ValidatorsSpec == InitValidators /\ [][NextValidators]_vars

(***************************************************************************)
(* Content detection and auto-validation over texts that meet the          *)
(* predicates of the developer family.                                     *)
(***************************************************************************)
\* instruction keywords in either case (one with a long s, whose upper case
\* is S), an HCL block opening that is also a
\* GraphQL brace, a GraphQL keyword, a Protobuf field, braces
DeveloperFrags ==
    { <<"F","R","O","M"," ">>, <<"r","u","n"," ","c","m","d"," ">>, <<"u","U+017F","e","r"," ">>, <<"d","a","t","a"," ","=","\"","{"," ">>, <<"t","y","p","e"," ">>, <<"}">>, <<"v","a","l","u","e",":","\"">>, <<"\n">>, <<"{">> }

InitDeveloper == InitState /\ filename = << >> /\ data \in Texts(DeveloperFrags, MaxFrags)

DeveloperSpec == InitDeveloper /\ [][Next]_vars

(***************************************************************************)
(* The command line's validateData: in auto mode it detects by file name   *)
(* first and by content when the name tells nothing.                       *)
(***************************************************************************)
\* the formats the command line's switch knows
cliFormats == {FormatJSON, FormatYAML, FormatXML, FormatTOML}

\* what a Validate through a nil Validator ends in
NilDereference == [Valid |-> FALSE, Format |-> "panic", Error |-> ErrorMsg("nil pointer dereference")]

\* the tag validateData asks NewValidator for, "none" when it asks for none
validateDataTag(name, format) ==
    IF format = FormatAuto
    THEN IF DetectFormatFromFilename(name) # FormatUnknown
         THEN DetectFormatFromFilename(name)
         ELSE "none"
    ELSE IF format \in cliFormats THEN format ELSE "none"

\* the validator validateData calls Validate on itself, if any
validateDataValidator(name, format) ==
    IF validateDataTag(name, format) = "none" THEN NilValidator
    ELSE NewValidator(validateDataTag(name, format)).validator

\* the questions validateData may put to the parsers
validateDataQuestions(bytes, name, format) ==
    IF format = FormatAuto /\ validateDataTag(name, format) = "none"
    THEN AutoQuestions(DetectFormat(bytes), bytes)
    ELSE Questions(validateDataValidator(name, format), bytes)

\* the questions it puts
validateDataAsked(bytes, name, format, orc) ==
    IF format = FormatAuto /\ validateDataTag(name, format) = "none"
    THEN Asked(NewValidator(DetectFormat(bytes)).validator, bytes, orc)
    ELSE Asked(validateDataValidator(name, format), bytes, orc)

\* validateData(data, filename, format): the Result it reports
validateData(bytes, name, format, orc) ==
    IF format = FormatAuto
    THEN LET detectedFormat == DetectFormatFromFilename(name)
         IN  IF detectedFormat # FormatUnknown
             THEN LET new == NewValidator(detectedFormat)
                  IN  IF new.validator = NilValidator THEN NilDereference
                      ELSE Validate(new.validator, bytes, orc)
             ELSE ValidateAuto(bytes, orc)
    ELSE IF format \notin cliFormats
    THEN [Valid |-> FALSE, Format |-> format, Error |-> ErrorMsg("unsupported format")]
    ELSE LET new == NewValidator(format)
         IN  IF new.err # NoError
             THEN [Valid |-> FALSE, Format |-> format, Error |-> new.err]
             ELSE Validate(new.validator, bytes, orc)

\* the command line validates the buffer under the file name; in auto mode,
\* under a name that tells nothing, the call it makes is ValidateAuto
CallValidateData(format) ==
    LET tag == validateDataTag(filename, format)
        auto == format = FormatAuto /\ DetectFormatFromFilename(filename) = FormatUnknown
    IN  \E orc \in Extensions(oracle, validateDataQuestions(data, filename, format)) :
            /\ oracle' = Recorded(oracle, orc, validateDataAsked(data, filename, format, orc))
            /\ result' = validateData(data, filename, format, orc)
            /\ autoResult' = IF auto THEN ValidateAutoRun(data, orc).result ELSE autoResult
            /\ checked' = IF auto THEN ValidateAutoRun(data, orc).checked ELSE checked
            /\ detected' = IF format = FormatAuto
                           THEN [kind |-> "name", input |-> filename,
                                 format |-> DetectFormatFromFilename(filename),
                                 consulted |-> << >>]
                           ELSE detected
            /\ made' = IF tag = "none" THEN made
                       ELSE [tag |-> tag, err |-> NewValidator(tag).err]
            /\ UNCHANGED <<extensionMap, validatorMap, data, filename, v>>

\* the formats given on the command line
CommandFormats == {FormatAuto, FormatJSON, FormatHCL}

CommandBuffers == { <<"{","\"","a","\"",":","1","}">> }

\* a file name for every extension of the table, in lower case and in
\* capitals, the names detected without the table (one with a Kelvin sign,
\* whose lower case is k), names detected as nothing, and a name with letters
\* outside Latin-1
CommandNames ==
    {<<"a",".">> \o e[1] : e \in extensionMapLiteral}
    \cup {<<"b","/","C",".">> \o ToUpper(e[1]) : e \in extensionMapLiteral}
    \cup { <<"D","o","c","k","e","r","f","i","l","e">>, <<"d","o","c","k","e","r","f","i","l","e",".","p","r","o","d">>, <<"r","e","q","u","i","r","e","m","e","n","t","s",".","t","x","t">>, <<"d","e","v","-","R","e","q","u","i","r","e","m","e","n","t","s",".","T","X","T">>,
           <<"n","o","t","e","s",".","t","x","t">>, <<"x">>, <<"s","t","d","i","n">>, <<"a",".">>, <<"a",".","e","x","e">>, <<"D","o","c","U+212A","e","r","f","i","l","e">>, <<"a",".","M","U+212A","D">>,
           <<"U+0100","/","U+0416",".","J","S","O","N">> }

InitCommand == InitState /\ data \in CommandBuffers /\ filename \in CommandNames

NextCommand == \E format \in CommandFormats : CallValidateData(format)

CommandSpec == InitCommand /\ [][NextCommand]_vars

(***************************************************************************)
(* Content detection and auto-validation over texts that meet the          *)
(* predicates of the data family.                                          *)
(***************************************************************************)
\* a heading line, a line of cells, a version specifier, emphasis, a comma
DataFrags == { <<"#"," ","t","\n">>, <<"a",",","b","\n">>, <<"=","=","x">>, <<"*","*">>, <<"x">>, <<",">>, <<"\n">> }

InitData == InitState /\ filename = << >> /\ data \in Texts(DataFrags, MaxFrags)

DataSpec == InitData /\ [][Next]_vars

(***************************************************************************)
(* Content detection and auto-validation over texts that meet the          *)
(* predicates of the config family.                                        *)
(***************************************************************************)
\* a tag, a section line, a key with a colon, a key with an equals sign, a
\* document mark
ConfigFrags == { <<"<","a",">">>, <<"[","s","]">>, <<"\n">>, <<"k",":"," ","v">>, <<"k"," ","="," ","v">>, <<"-","-","-">>, <<"x">> }

InitConfig == InitState /\ filename = << >> /\ data \in Texts(ConfigFrags, MaxFrags)

ConfigSpec == InitConfig /\ [][Next]_vars

(***************************************************************************)
(* Content detection and auto-validation over texts of GraphQL keywords    *)
(* and braces.                                                             *)
(***************************************************************************)
\* two keywords, a pair of braces, an opening brace before a space and before
\* a newline, a closing brace
GraphQLFrags == { <<"t","y","p","e"," ">>, <<"q","u","e","r","y"," ","x">>, <<"{","}">>, <<"{"," ">>, <<"{","\n">>, <<"}">>, <<"x">> }

InitGraphQL == InitState /\ filename = << >> /\ data \in Texts(GraphQLFrags, MaxFrags)

GraphQLSpec == InitGraphQL /\ [][Next]_vars

(***************************************************************************)
(* Content detection and auto-validation over texts of keys and colons.    *)
(***************************************************************************)
\* a document mark, a key with its colon, a value after a space, a URL
\* scheme, the two Protobuf field names
YAMLFrags == { <<"-","-","-">>, <<"k",":">>, <<" ","v">>, <<":","/","/">>, <<"v","a","l","u","e",":">>, <<"t","y","p","e","_","u","r","l",":">>, <<"x">>, <<"\n">> }

InitYAML == InitState /\ filename = << >> /\ data \in Texts(YAMLFrags, MaxFrags)

YAMLSpec == InitYAML /\ [][Next]_vars

(***************************************************************************)
(* Content detection over buffers of lines with and without commas, long   *)
(* enough to have lines after the fifth.                                   *)
(***************************************************************************)
MaxCSVLines == 6

\* a line of two cells, a line of one, an empty line, a line of one no-break
\* space
CSVLineSet == { <<"a",",","b">>, <<"c">>, <<>>, <<"U+00A0">> }

InitCSV == InitState /\ filename = << >> /\ data \in LineTexts(CSVLineSet, MaxCSVLines)

NextCSV == CallDetectFormat

CSVSpec == InitCSV /\ [][NextCSV]_vars

(***************************************************************************)
(* Properties.                                                             *)
(***************************************************************************)
\* the families in the order of the cascade, and what each of them answers
\* for a trimmed text
FamilyOrder == <<"json", "developer", "data", "config">>

FamilyAnswers(trimmed) ==
    LET lines == SplitLines(trimmed)
    IN  << detectJSONFamily(trimmed, lines), detectDeveloperFormats(trimmed, lines),
           detectDataFormats(trimmed, lines), detectConfigFormats(trimmed, lines) >>

FamilyHits(trimmed) == {i \in 1..4 : FamilyAnswers(trimmed)[i] # FormatUnknown}

\* C1: DetectFormat consults the families in the order JSON, developer, data,
\* config; a family is consulted only when every family before it answered
\* unknown, and the tag returned is the answer of the first family that
\* matches (unknown, after all four, when none does).
CascadeOrder ==
    (detected.kind = "bytes" /\ TrimSpace(detected.input) # << >>) =>
        LET trimmed == TrimSpace(detected.input)
            f == FamilyAnswers(trimmed)
            hits == FamilyHits(trimmed)
            n == Len(detected.consulted)
        IN  /\ n \in 1..4
            /\ detected.consulted = SubSeq(FamilyOrder, 1, n)
            /\ \A i \in 1..(n - 1) : f[i] = FormatUnknown
            /\ IF hits = {}
               THEN detected.format = FormatUnknown /\ n = 4
               ELSE LET first == CHOOSE i \in hits : \A j \in hits : i <= j
                    IN  detected.format = f[first] /\ n = first

\* a buffer that the developer, the data and the config family all match
CascadeOrderWitness ==
    /\ detected.kind = "bytes"
    /\ FamilyHits(TrimSpace(detected.input)) = {2, 3, 4}
    /\ detected.format = FamilyAnswers(TrimSpace(detected.input))[2]
    /\ detected.consulted = <<"json", "developer">>

\* C2: a buffer whose trimmed text starts with an opening brace and contains
\* the three quoted keys "cells", "metadata" and "nbformat" is detected as
\* Jupyter, also when it is brace-wrapped as a whole or line by line.
JupyterFirst ==
    (/\ detected.kind = "bytes"
     /\ LET trimmed == TrimSpace(detected.input)
        IN  /\ Len(trimmed) > 0
            /\ trimmed[1] = "{"
            /\ Contains(trimmed, <<"\"","c","e","l","l","s","\"">>)
            /\ Contains(trimmed, <<"\"","m","e","t","a","d","a","t","a","\"">>)
            /\ Contains(trimmed, <<"\"","n","b","f","o","r","m","a","t","\"">>))
    => detected.format = FormatJupyter

\* a notebook whose lines are each brace-wrapped and which is brace-wrapped
\* as a whole
JupyterFirstWitness ==
    /\ detected.kind = "bytes"
    /\ detected.format = FormatJupyter
    /\ isJSONLines(SplitLines(TrimSpace(detected.input)))
    /\ isJSON(TrimSpace(detected.input))

\* a trimmed line that starts with { and ends with }, or starts with [ and
\* ends with ]
Wrapped(line) ==
    /\ Len(line) > 0
    /\ \/ (line[1] = "{" /\ line[Len(line)] = "}")
       \/ (line[1] = "[" /\ line[Len(line)] = "]")

\* the indices of the non-blank lines of a trimmed text
NonBlank(lines) == {i \in 1..Len(lines) : TrimSpace(lines[i]) # << >>}

\* C3: a buffer not detected as Jupyter is detected as JSON Lines exactly when
\* its trimmed text has more than one line, every non-blank line is wrapped
\* and there are at least two non-blank lines; one unwrapped non-blank line,
\* wherever it stands, rules JSON Lines out.
JSONLinesExactly ==
    (detected.kind = "bytes" /\ detected.format # FormatJupyter) =>
        LET lines == SplitLines(TrimSpace(detected.input))
        IN  (detected.format = FormatJSONL) <=>
                /\ Len(lines) > 1
                /\ \A i \in NonBlank(lines) : Wrapped(TrimSpace(lines[i]))
                /\ Cardinality(NonBlank(lines)) >= 2

\* two wrapped lines followed by an unwrapped one: not JSON Lines
JSONLinesExactlyWitness ==
    /\ detected.kind = "bytes"
    /\ detected.format \notin {FormatJupyter, FormatJSONL}
    /\ LET lines == SplitLines(TrimSpace(detected.input))
       IN  /\ Len(lines) = 3
           /\ Wrapped(TrimSpace(lines[1]))
           /\ Wrapped(TrimSpace(lines[2]))
           /\ TrimSpace(lines[3]) # << >>
           /\ ~Wrapped(TrimSpace(lines[3]))

\* C4: for an empty buffer, or one of whitespace only, DetectFormat returns
\* unknown without consulting any family.
BlankIsUnknown ==
    (detected.kind = "bytes" /\ \A i \in 1..Len(detected.input) : IsSpace(detected.input[i]))
    => (detected.format = FormatUnknown /\ detected.consulted = << >>)

\* a buffer of whitespace, not empty
BlankIsUnknownWitness ==
    /\ detected.kind = "bytes"
    /\ Len(detected.input) > 1
    /\ \A i \in 1..Len(detected.input) : IsSpace(detected.input[i])
    /\ detected.format = FormatUnknown

\* the tags that have an entry in the validator registry
RegisteredTags == {e[1] : e \in validatorMap}

\* C5: DetectFormat returns unknown or one of the 14 tags of the validator
\* registry, never auto, so ValidateAuto never returns the unsupported-format
\* error of NewValidator.
DetectedIsRegistered ==
    /\ Cardinality(RegisteredTags) = 14
    /\ detected.kind = "bytes" =>
          /\ detected.format \in RegisteredTags \cup {FormatUnknown}
          /\ detected.format # FormatAuto
    /\ autoResult # NoResult =>
          /\ autoResult.Format \in RegisteredTags \cup {FormatUnknown}
          /\ autoResult.Error.msg # "unsupported format: "

\* a buffer detected as requirements on which ValidateAuto has run
DetectedIsRegisteredWitness ==
    /\ detected.kind = "bytes"
    /\ detected.format = FormatRequirements
    /\ autoResult # NoResult
    /\ autoResult.Format = FormatRequirements

\* C7: on a buffer that DetectFormat gives unknown, ValidateAuto returns
\* valid=false, format=unknown, error "unable to detect format", and invokes
\* no validator and no parser.
UnknownIsNotValidated ==
    (autoResult # NoResult /\ DetectFormat(data) = FormatUnknown) =>
        /\ autoResult = [Valid |-> FALSE, Format |-> FormatUnknown,
                         Error |-> [msg |-> "unable to detect format", line |-> 0,
                                    text |-> << >>]]
        /\ checked = << >>
        /\ oracle = EmptyOracle

\* ValidateAuto has run on a buffer that is not blank and matches no family
UnknownIsNotValidatedWitness ==
    /\ autoResult # NoResult
    /\ autoResult.Format = FormatUnknown
    /\ TrimSpace(data) # << >>
    /\ FamilyHits(TrimSpace(data)) = {}

\* C8: on a buffer that DetectFormat gives a tag T other than unknown,
\* ValidateAuto invokes the validator of T and no other, and returns what
\* that validator's Validate returns on the same bytes: format T, and
\* valid=false with format T when the parse-check fails.
AutoIsValidatorOfDetected ==
    (autoResult # NoResult /\ DetectFormat(data) # FormatUnknown) =>
        /\ autoResult.Format = DetectFormat(data)
        /\ checked = <<DetectFormat(data)>>
        /\ (result # NoResult /\ result.Format = DetectFormat(data))
              => result = autoResult

\* ValidateAuto and the validator of the detected tag have both run on the
\* buffer, and the parse-check failed
AutoIsValidatorOfDetectedWitness ==
    /\ autoResult # NoResult
    /\ DetectFormat(data) \notin {FormatUnknown, FormatJSON, FormatDockerfile}
    /\ result # NoResult
    /\ result.Format = DetectFormat(data)
    /\ result = autoResult
    /\ ~autoResult.Valid
    /\ autoResult.Format = DetectFormat(data)

\* the 14 tags of the registry, as the source lists them
RegistryTagList ==
    { "json", "yaml", "xml", "toml", "csv", "graphql", "ini", "hcl", "protobuf",
      "markdown", "jsonl", "jupyter", "requirements", "dockerfile" }

\* C9: NewValidator returns, for each of the 14 registered tags, no error and
\* a validator whose Format is the tag; for auto, unknown and any other
\* string it returns no validator and the error "unsupported format: <tag>".
NewValidatorContract ==
    made.tag # "none" =>
        IF made.tag \in RegistryTagList
        THEN /\ made.err = NoError
             /\ v # NilValidator
             /\ v.format = made.tag
        ELSE /\ v = NilValidator
             /\ made.err.msg = "unsupported format: "
             /\ made.err.text = <<made.tag>>

\* NewValidator was asked for auto and refused
NewValidatorContractWitness ==
    /\ made.tag = FormatAuto
    /\ v = NilValidator
    /\ made.err # NoError

\* the last segment of a name, lower-cased
LastSegment(name) ==
    LET slashes == {i \in 1..Len(name) : name[i] = "/"}
        from == IF slashes = {} THEN 1
                ELSE 1 + CHOOSE i \in slashes : \A j \in slashes : j <= i
    IN  [k \in 1..(Len(name) - from + 1) |-> ToLowerChar(name[from + k - 1])]

\* C10: a name whose last segment, lower-cased, is dockerfile or starts with
\* "dockerfile." is detected as Dockerfile, whatever extension follows.
DockerfileNameWins ==
    (/\ detected.kind = "name"
     /\ LET seg == LastSegment(detected.input)
        IN  \/ seg = <<"d","o","c","k","e","r","f","i","l","e">>
            \/ (Len(seg) >= 11 /\ SubSeq(seg, 1, 11) = <<"d","o","c","k","e","r","f","i","l","e",".">>))
    => detected.format = FormatDockerfile

\* a Dockerfile in a directory, in capitals, with the extension of JSON
DockerfileNameWinsWitness ==
    /\ detected.kind = "name"
    /\ detected.format = FormatDockerfile
    /\ detected.input = <<"/","D","o","c","k","e","r","f","i","l","e",".","J","S","O","N">>

\* whether the last segment of a name is a Dockerfile name
IsDockerfileName(name) ==
    LET seg == LastSegment(name)
    IN  \/ seg = <<"d","o","c","k","e","r","f","i","l","e">>
        \/ (Len(seg) >= 11 /\ SubSeq(seg, 1, 11) = <<"d","o","c","k","e","r","f","i","l","e",".">>)

\* the positions of the dots of a name
Dots(name) == {i \in 1..Len(name) : name[i] = "."}

\* the text after the last dot of a name that has one, lower-cased
LowerExtension(name) ==
    LET last == CHOOSE i \in Dots(name) : \A j \in Dots(name) : j <= i
    IN  [k \in 1..(Len(name) - last) |-> ToLowerChar(name[last + k])]

\* the whole name, lower-cased
LowerName(name) == [k \in 1..Len(name) |-> ToLowerChar(name[k])]

\* whether a text occurs in another
Occurs(p, s) == \E i \in 0..(Len(s) - Len(p)) : SubSeq(s, i + 1, i + Len(p)) = p

\* C11: a name that is not a Dockerfile name and whose extension is txt in any
\* letter case is detected as requirements when the whole lower-cased name,
\* directories included, contains "requirements", and as unknown otherwise.
TxtIsRequirementsOrUnknown ==
    (/\ detected.kind = "name"
     /\ ~IsDockerfileName(detected.input)
     /\ Dots(detected.input) # {}
     /\ LowerExtension(detected.input) = <<"t","x","t">>)
    => detected.format = IF Occurs(<<"r","e","q","u","i","r","e","m","e","n","t","s">>, LowerName(detected.input))
                         THEN FormatRequirements
                         ELSE FormatUnknown

\* a txt file in capitals whose directory, not its base name, says requirements
TxtIsRequirementsOrUnknownWitness ==
    /\ detected.kind = "name"
    /\ detected.format = FormatRequirements
    /\ ~Occurs(<<"r","e","q","u","i","r","e","m","e","n","t","s">>, LastSegment(detected.input))
    /\ Occurs(<<".","T","X","T">>, detected.input)

\* C12 as stated: a name that is not a Dockerfile name is unknown when it has
\* no dot; otherwise its lower-cased extension is looked up in the extension
\* table, a hit giving the table's tag and a miss unknown.
ExtensionLookupOnly ==
    (detected.kind = "name" /\ ~IsDockerfileName(detected.input)) =>
        IF Dots(detected.input) = {}
        THEN detected.format = FormatUnknown
        ELSE LET ext == LowerExtension(detected.input)
                 hits == {e \in extensionMap : e[1] = ext}
             IN  IF hits = {}
                 THEN detected.format = FormatUnknown
                 ELSE \E e \in hits : detected.format = e[2]

\* C12, amended: the same for the names that are not txt names containing
\* "requirements", which the special case of C11 decides before the lookup.
ExtensionLookup ==
    (/\ detected.kind = "name"
     /\ ~IsDockerfileName(detected.input)
     /\ ~(/\ Dots(detected.input) # {}
          /\ LowerExtension(detected.input) = <<"t","x","t">>
          /\ Occurs(<<"r","e","q","u","i","r","e","m","e","n","t","s">>, LowerName(detected.input)))) =>
        IF Dots(detected.input) = {}
        THEN detected.format = FormatUnknown
        ELSE LET ext == LowerExtension(detected.input)
                 hits == {e \in extensionMap : e[1] = ext}
             IN  IF hits = {}
                 THEN detected.format = FormatUnknown
                 ELSE \E e \in hits : detected.format = e[2]

\* an extension in capitals that the table has in lower case
ExtensionLookupWitness ==
    /\ detected.kind = "name"
    /\ ~IsDockerfileName(detected.input)
    /\ detected.format = FormatJSON
    /\ Occurs(<<".","J","S","O","N">>, detected.input)
    /\ ~Occurs(<<".","j","s","o","n">>, detected.input)

\* the 17 instruction keywords
InstructionKeywords ==
    { <<"F","R","O","M">>, <<"R","U","N">>, <<"C","M","D">>, <<"L","A","B","E","L">>, <<"E","X","P","O","S","E">>, <<"E","N","V">>, <<"A","D","D">>, <<"C","O","P","Y">>, <<"E","N","T","R","Y","P","O","I","N","T">>,
      <<"V","O","L","U","M","E">>, <<"U","S","E","R">>, <<"W","O","R","K","D","I","R">>, <<"A","R","G">>, <<"O","N","B","U","I","L","D">>, <<"S","T","O","P","S","I","G","N","A","L">>, <<"H","E","A","L","T","H","C","H","E","C","K">>,
      <<"S","H","E","L","L">> }

\* a trimmed line in capitals
UpperLine(line) == [k \in 1..Len(line) |-> ToUpperChar(line[k])]

\* whether a trimmed line begins, in any letter case, with keyword kw and a
\* space, or is kw
BeginsWith(kw, line) ==
    \/ UpperLine(line) = kw
    \/ (Len(line) > Len(kw) /\ SubSeq(UpperLine(line), 1, Len(kw) + 1) = kw \o <<" ">>)

\* the lines of a Dockerfile that are instructions to test: not blank, not a
\* comment, not after a physical line that ends in a backslash
InstructionLines(lines) ==
    {i \in 1..Len(lines) :
        /\ TrimSpace(lines[i]) # << >>
        /\ TrimSpace(lines[i])[1] # "#"
        /\ ~(i > 1 /\ Len(lines[i - 1]) > 0 /\ lines[i - 1][Len(lines[i - 1])] = "\\")}

\* the FROM instructions of a Dockerfile
FromInstructions(bytes) ==
    LET lines == SplitLines(bytes)
    IN  {i \in InstructionLines(lines) : BeginsWith(<<"F","R","O","M">>, TrimSpace(lines[i]))}

\* C13: the Dockerfile validator returns valid=false for every buffer that
\* has no FROM instruction, whatever other instructions, comments, blank
\* lines and continuations it has.
NoFromFails ==
    (/\ result # NoResult
     /\ result.Format = FormatDockerfile
     /\ FromInstructions(data) = {})
    => ~result.Valid

\* C20: the Dockerfile validator fails with "invalid instruction on line N"
\* exactly when some instruction line begins with none of the 17 keywords, N
\* being the first such line counted in physical lines; blank lines, comments
\* and continuation lines are never rejected.
FirstInvalidInstruction ==
    (result # NoResult /\ result.Format = FormatDockerfile) =>
        LET lines == SplitLines(data)
            bad == {i \in InstructionLines(lines) :
                       \A kw \in InstructionKeywords : ~BeginsWith(kw, TrimSpace(lines[i]))}
        IN  /\ Cardinality(InstructionKeywords) = 17
            /\ IF bad = {}
               THEN result.Error.msg # "invalid instruction on line"
               ELSE LET n == CHOOSE i \in bad : \A j \in bad : i <= j
                    IN  result = [Valid |-> FALSE, Format |-> FormatDockerfile,
                                  Error |-> [msg |-> "invalid instruction on line",
                                             line |-> n, text |-> TrimSpace(lines[n])]]

\* the third line is rejected after a continuation line that begins with no
\* keyword was let through
FirstInvalidInstructionWitness ==
    /\ result # NoResult
    /\ result.Error.msg = "invalid instruction on line"
    /\ result.Error.line = 3
    /\ LET lines == SplitLines(data)
       IN  /\ 2 \notin InstructionLines(lines)
           /\ TrimSpace(lines[2]) = <<"x">>

\* the question the JSON Lines validator puts for line i
LineQuestion(lines, i) == <<"json", TrimSpace(lines[i])>>

\* C14: when the JSON Lines validator fails, its message names the 1-based
\* physical position of the first non-blank line the JSON parser rejects;
\* blank lines are skipped and never fail, every non-blank line before that
\* one was parsed and accepted, and no line after it is given to the parser.
\* When it succeeds every non-blank line was parsed and accepted.
JSONLFirstFailingLine ==
    (result # NoResult /\ result.Format = FormatJSONL) =>
        LET lines == SplitLines(data)
            nonBlank == {i \in 1..Len(lines) : TrimSpace(lines[i]) # << >>}
            rejected == {i \in nonBlank :
                            /\ LineQuestion(lines, i) \in DOMAIN oracle
                            /\ ~oracle[LineQuestion(lines, i)].ok}
        IN  IF result.Valid
            THEN /\ result.Error = NoError
                 /\ \A i \in nonBlank :
                        /\ LineQuestion(lines, i) \in DOMAIN oracle
                        /\ oracle[LineQuestion(lines, i)].ok
            ELSE /\ rejected # {}
                 /\ LET n == CHOOSE i \in rejected : \A j \in rejected : i <= j
                    IN  /\ result.Error = [msg |-> "invalid JSON on line", line |-> n,
                                           text |-> ParseErrorText]
                        /\ \A i \in nonBlank : i < n =>
                               /\ LineQuestion(lines, i) \in DOMAIN oracle
                               /\ oracle[LineQuestion(lines, i)].ok
                        /\ \A q \in DOMAIN oracle :
                               \E i \in nonBlank : i <= n /\ q = LineQuestion(lines, i)

\* the second line fails after a blank first line, and the third line, not
\* blank, was never given to the parser
JSONLFirstFailingLineWitness ==
    /\ result # NoResult
    /\ ~result.Valid
    /\ result.Error.line = 2
    /\ LET lines == SplitLines(data)
       IN  /\ Len(lines) = 3
           /\ TrimSpace(lines[1]) = << >>
           /\ TrimSpace(lines[3]) # << >>
           /\ LineQuestion(lines, 3) \notin DOMAIN oracle

\* the kinds of validator that call an external parser
ParserKinds ==
    { "JSONValidator", "YAMLValidator", "XMLValidator", "TOMLValidator", "CSVValidator",
      "GraphQLValidator", "INIValidator", "HCLValidator", "ProtobufValidator",
      "MarkdownValidator", "JSONLValidator", "JupyterValidator" }

\* the parser was given the buffer (line by line, for JSON Lines) and
\* accepted all it was given
ParserAccepted ==
    /\ Questions(v, data) # {}
    /\ \A q \in Questions(v, data) : q \in DOMAIN oracle /\ oracle[q].ok

\* C15 as stated: for every tag with an external parser, a buffer that the
\* parser accepts is valid for the validator of the tag.
AcceptedIsValidForAll ==
    (result # NoResult /\ v.kind \in ParserKinds /\ ParserAccepted) => result.Valid

\* C15, amended: the same for every tag but Jupyter, whose validator also
\* requires the parsed map to have the keys cells, metadata and nbformat.
AcceptedIsValid ==
    (/\ result # NoResult
     /\ v.kind \in ParserKinds
     /\ ParserAccepted
     /\ v.kind = "JupyterValidator" =>
            notebookKeys \subseteq oracle[<<"json.map", data>>].keys)
    => result.Valid

\* the GraphQL parser accepted the buffer and the validator says valid
AcceptedIsValidWitness ==
    /\ result # NoResult
    /\ v.kind = "GraphQLValidator"
    /\ ParserAccepted
    /\ result.Valid

\* C16: in every Result of a validator and of ValidateAuto, valid=true comes
\* with an empty error, so an error that is not empty comes with valid=false.
ValidHasNoError ==
    /\ result.Valid => result.Error = NoError
    /\ autoResult.Valid => autoResult.Error = NoError
    /\ result.Error # NoError => ~result.Valid
    /\ autoResult.Error # NoError => ~autoResult.Valid

\* a valid Result of the HCL validator, beside a failed ValidateAuto
ValidHasNoErrorWitness ==
    /\ v.kind = "HCLValidator"
    /\ result.Valid
    /\ result.Error = NoError
    /\ autoResult # NoResult
    /\ ~autoResult.Valid
    /\ autoResult.Error # NoError

\* the message of the Jupyter validator for the first key missing from a set
\* of keys, in the order cells, metadata, nbformat
MissingFieldMessage(keys) ==
    IF "cells" \notin keys THEN "missing required field: cells"
    ELSE IF "metadata" \notin keys THEN "missing required field: metadata"
    ELSE "missing required field: nbformat"

\* C19: the Jupyter validator returns valid=true exactly when the buffer
\* parses as a JSON map that has the keys cells, metadata and nbformat; when
\* the map lacks keys the message names the first one missing in that order;
\* when the parse fails the message is "invalid JSON: " and the parser's error.
JupyterOutcome ==
    (result # NoResult /\ result.Format = FormatJupyter) =>
        /\ <<"json.map", data>> \in DOMAIN oracle
        /\ LET notebook == oracle[<<"json.map", data>>]
           IN  /\ result.Valid <=> (notebook.ok /\ notebookKeys \subseteq notebook.keys)
               /\ result.Valid => result.Error = NoError
               /\ ~notebook.ok =>
                      result.Error = [msg |-> "invalid JSON: ", line |-> 0,
                                      text |-> ParseErrorText]
               /\ (notebook.ok /\ ~(notebookKeys \subseteq notebook.keys)) =>
                      result.Error = [msg |-> MissingFieldMessage(notebook.keys),
                                      line |-> 0, text |-> << >>]

\* the map has metadata only: the message names cells, not nbformat
JupyterOutcomeWitness ==
    /\ result # NoResult
    /\ result.Format = FormatJupyter
    /\ <<"json.map", data>> \in DOMAIN oracle
    /\ oracle[<<"json.map", data>>].ok
    /\ oracle[<<"json.map", data>>].keys = {"metadata"}
    /\ result.Error.msg = "missing required field: cells"

\* the tags of the developer family in the order of its tests, and the tests
\* a trimmed text passes
DeveloperOrder == <<FormatDockerfile, FormatHCL, FormatGraphQL, FormatProtobuf>>

DeveloperHits(trimmed) ==
    {i \in 1..4 : << isDockerfile(ToUpper(trimmed)), isHCL(trimmed),
                     isGraphQL(trimmed), isProtobuf(trimmed) >>[i]}

ReachesDeveloper(d) ==
    /\ d.kind = "bytes"
    /\ Len(d.consulted) >= 2
    /\ d.consulted[2] = "developer"

\* C21: a buffer that reaches the developer family and passes several of its
\* tests gets the tag of the first one passed, in the order Dockerfile, HCL,
\* GraphQL, Protobuf text.
DeveloperFamilyOrder ==
    ReachesDeveloper(detected) =>
        LET hits == DeveloperHits(TrimSpace(detected.input))
        IN  hits # {} =>
                /\ detected.format = DeveloperOrder[CHOOSE i \in hits : \A j \in hits : i <= j]
                /\ detected.consulted = <<"json", "developer">>

\* an HCL block that also passes the GraphQL test, detected as HCL
DeveloperFamilyOrderWitness ==
    /\ ReachesDeveloper(detected)
    /\ {2, 3} \subseteq DeveloperHits(TrimSpace(detected.input))
    /\ 1 \notin DeveloperHits(TrimSpace(detected.input))
    /\ detected.format = FormatHCL

\* the 12 keywords of Dockerfile detection, and those of them that occur in
\* an upper-cased text followed by a space
DetectionKeywords ==
    { <<"F","R","O","M">>, <<"R","U","N">>, <<"C","M","D">>, <<"E","X","P","O","S","E">>, <<"E","N","V">>, <<"A","D","D">>, <<"C","O","P","Y">>, <<"E","N","T","R","Y","P","O","I","N","T">>, <<"V","O","L","U","M","E">>,
      <<"U","S","E","R">>, <<"W","O","R","K","D","I","R">>, <<"A","R","G">> }

KeywordsIn(upper) == {k \in DetectionKeywords : Occurs(k \o <<" ">>, upper)}

NoJSONRule(trimmed) ==
    trimmed = << >> \/ detectJSONFamily(trimmed, SplitLines(trimmed)) = FormatUnknown

\* C24: for a buffer that no rule of the JSON family matches, DetectFormat
\* returns Dockerfile exactly when the upper-cased trimmed text contains
\* "FROM " anywhere or at least 3 distinct keywords of the 12, each followed
\* by a space.
DockerfileExactly ==
    (detected.kind = "bytes" /\ NoJSONRule(TrimSpace(detected.input))) =>
        LET upper == UpperLine(TrimSpace(detected.input))
        IN  detected.format = FormatDockerfile <=>
                (Occurs(<<"F","R","O","M"," ">>, upper) \/ Cardinality(KeywordsIn(upper)) >= 3)

\* three keywords in lower case, one of them inside a line, and no FROM
DockerfileExactlyWitness ==
    /\ detected.kind = "bytes"
    /\ LET trimmed == TrimSpace(detected.input)
       IN  /\ ~Occurs(<<"F","R","O","M"," ">>, UpperLine(trimmed))
           /\ ~Occurs(<<"R","U","N"," ">>, trimmed)
           /\ Cardinality(KeywordsIn(UpperLine(trimmed))) = 3
           /\ ~HasPrefix(trimmed, <<"r","u","n"," ">>)
    /\ detected.format = FormatDockerfile

\* C28: a buffer that DetectFormat gives the tag Dockerfile although its
\* upper-cased trimmed text contains no "FROM " (the three-keyword rule alone
\* selected it) is rejected by ValidateAuto: valid=false, format Dockerfile.
KeywordDockerfileIsInvalid ==
    (/\ detected.kind = "bytes"
     /\ detected.format = FormatDockerfile
     /\ ~Occurs(<<"F","R","O","M"," ">>, UpperLine(TrimSpace(detected.input)))
     /\ autoResult # NoResult)
    => (/\ detected.input = data
        /\ ~autoResult.Valid
        /\ autoResult.Format = FormatDockerfile)

\* ValidateAuto has rejected, for its missing FROM, a buffer of instruction
\* lines that the three-keyword rule detected
KeywordDockerfileIsInvalidWitness ==
    /\ detected.kind = "bytes"
    /\ detected.format = FormatDockerfile
    /\ ~Occurs(<<"F","R","O","M"," ">>, UpperLine(TrimSpace(detected.input)))
    /\ autoResult.Format = FormatDockerfile
    /\ ~autoResult.Valid
    /\ autoResult.Error.msg = "missing required FROM instruction"

\* the lines of a Dockerfile, not blank and not a comment, that follow a
\* physical line ending in a backslash
ContinuationLines(lines) ==
    {i \in 2..Len(lines) :
        /\ TrimSpace(lines[i]) # << >>
        /\ TrimSpace(lines[i])[1] # "#"
        /\ Len(lines[i - 1]) > 0
        /\ lines[i - 1][Len(lines[i - 1])] = "\\"}

\* the lines, not blank and not a comment, that trimmed and in capitals start
\* with "FROM "
FromStarts(lines) ==
    {i \in 1..Len(lines) :
        LET line == TrimSpace(lines[i])
        IN  /\ Len(line) >= 5
            /\ line[1] # "#"
            /\ SubSeq(UpperLine(line), 1, 5) = <<"F","R","O","M"," ">>}

\* C29: the Dockerfile validator never rejects a continuation line for its
\* keyword, and a continuation line that starts with "FROM " counts toward the
\* FROM requirement like any other line: a buffer that has no rejected line is
\* valid exactly when some line of it, continuation or not, starts with
\* "FROM ".
ContinuationCountsForFrom ==
    (result # NoResult /\ result.Format = FormatDockerfile) =>
        LET lines == SplitLines(data)
        IN  IF result.Error.msg = "invalid instruction on line"
            THEN result.Error.line \notin ContinuationLines(lines)
            ELSE result.Valid <=> FromStarts(lines) # {}

\* a buffer accepted although its only line starting with "FROM " is a
\* continuation line
ContinuationCountsForFromWitness ==
    /\ result # NoResult
    /\ result.Format = FormatDockerfile
    /\ result.Valid
    /\ FromStarts(SplitLines(data)) # {}
    /\ FromStarts(SplitLines(data)) \subseteq ContinuationLines(SplitLines(data))

\* C30: every tag other than unknown that DetectFormatFromFilename returns has
\* a validator in the registry: no NewValidator of the command line returns
\* an error, and its auto mode, which drops that error, never calls Validate
\* on a missing validator.
FilenameTagsAreRegistered ==
    /\ (detected.kind = "name" /\ detected.format # FormatUnknown) =>
            detected.format \in RegisteredTags
    /\ made.tag # "none" => made.err = NoError
    /\ result.Format # NilDereference.Format

\* the command line validated a buffer as the requirements list that its file
\* name, not its extension alone, says it is
FilenameTagsAreRegisteredWitness ==
    /\ detected.kind = "name"
    /\ detected.format = FormatRequirements
    /\ made = [tag |-> FormatRequirements, err |-> NoError]
    /\ result.Format = FormatRequirements

\* the tags of the data family in the order of its tests, and the tests a
\* trimmed text passes
DataOrder == <<FormatCSV, FormatMarkdown, FormatRequirements>>

DataHits(trimmed) ==
    LET lines == SplitLines(trimmed)
    IN  {i \in 1..3 : << detectCSV(trimmed, lines), detectMarkdown(trimmed, lines),
                         detectRequirements(trimmed, lines) >>[i]}

ReachesData(d) ==
    /\ d.kind = "bytes"
    /\ Len(d.consulted) >= 3
    /\ d.consulted[3] = "data"

\* C22: a buffer that reaches the data family and passes several of its tests
\* gets the tag of the first one passed, in the order CSV, Markdown,
\* requirements: lines of equal comma count with "==" in them are CSV, and a
\* first line starting with "#" before a version specifier is Markdown.
DataFamilyOrder ==
    ReachesData(detected) =>
        LET hits == DataHits(TrimSpace(detected.input))
        IN  hits # {} =>
                /\ detected.format = DataOrder[CHOOSE i \in hits : \A j \in hits : i <= j]
                /\ detected.consulted = <<"json", "developer", "data">>

\* lines of equal comma count with "==" in them, detected as CSV
DataFamilyOrderWitness ==
    /\ ReachesData(detected)
    /\ DataHits(TrimSpace(detected.input)) = {1, 3}
    /\ Occurs(<<"=","=">>, detected.input)
    /\ detected.format = FormatCSV

\* a first line starting with "#" before a version specifier, detected as
\* Markdown
DataFamilyOrderMarkdown ==
    /\ ReachesData(detected)
    /\ DataHits(TrimSpace(detected.input)) = {2, 3}
    /\ detected.input[1] = "#"
    /\ detected.format = FormatMarkdown

\* the tags of the config family in the order of its tests, and the tests a
\* trimmed text passes
ConfigOrder == <<FormatXML, FormatINI, FormatYAML, FormatTOML>>

ConfigHits(trimmed) ==
    LET lines == SplitLines(trimmed)
    IN  {i \in 1..4 : << isXML(trimmed), isINI(trimmed, lines), isYAML(trimmed),
                         isTOML(trimmed) >>[i]}

ReachesConfig(d) ==
    /\ d.kind = "bytes"
    /\ Len(d.consulted) = 4

\* a line that, trimmed, is wrapped in square brackets
SectionLines(trimmed) ==
    {i \in 1..Len(SplitLines(trimmed)) :
        LET line == TrimSpace(SplitLines(trimmed)[i])
        IN  Len(line) >= 1 /\ line[1] = "[" /\ line[Len(line)] = "]"}

\* C23: a buffer that reaches the config family and passes several of its
\* tests gets the tag of the first one passed, in the order XML, INI, YAML,
\* TOML: a buffer with a line wrapped in square brackets that does not start
\* as XML is INI, whatever key: value or key = value text it has.
ConfigFamilyOrder ==
    ReachesConfig(detected) =>
        LET hits == ConfigHits(TrimSpace(detected.input))
        IN  /\ hits # {} =>
                detected.format = ConfigOrder[CHOOSE i \in hits : \A j \in hits : i <= j]
            /\ (SectionLines(TrimSpace(detected.input)) # {} /\ 1 \notin hits) =>
                detected.format = FormatINI

\* a section line after a key: value line, detected as INI
ConfigFamilyOrderWitness ==
    /\ ReachesConfig(detected)
    /\ DataHits(TrimSpace(detected.input)) = {}
    /\ {2, 3} \subseteq ConfigHits(TrimSpace(detected.input))
    /\ 1 \notin ConfigHits(TrimSpace(detected.input))
    /\ Occurs(<<"k",":"," ","v">>, detected.input)
    /\ detected.format = FormatINI

\* the 10 keywords of GraphQL detection, and those of them that occur in a
\* text followed by a space
GraphQLKeywords ==
    { <<"q","u","e","r","y">>, <<"m","u","t","a","t","i","o","n">>, <<"s","u","b","s","c","r","i","p","t","i","o","n">>, <<"f","r","a","g","m","e","n","t">>, <<"t","y","p","e">>, <<"i","n","t","e","r","f","a","c","e">>, <<"e","n","u","m">>,
      <<"i","n","p","u","t">>, <<"s","c","a","l","a","r">>, <<"s","c","h","e","m","a">> }

GraphQLKeywordsIn(trimmed) == {k \in GraphQLKeywords : Occurs(k \o <<" ">>, trimmed)}

\* C25: the GraphQL test holds exactly when a keyword followed by a space
\* occurs, both braces occur, and the opening brace is directly followed by a
\* newline or a space somewhere or at least two distinct keywords occur; it
\* decides the tag of every buffer that the JSON family, the Dockerfile test
\* and the HCL test miss.
GraphQLExactly ==
    (/\ ReachesDeveloper(detected)
     /\ DeveloperHits(TrimSpace(detected.input)) \cap {1, 2} = {})
    => LET trimmed == TrimSpace(detected.input)
           n == Cardinality(GraphQLKeywordsIn(trimmed))
       IN  detected.format = FormatGraphQL <=>
               /\ n >= 1
               /\ Occurs(<<"{">>, trimmed)
               /\ Occurs(<<"}">>, trimmed)
               /\ (Occurs(<<"{","\n">>, trimmed) \/ Occurs(<<"{"," ">>, trimmed) \/ n >= 2)

\* two keywords and braces with nothing after the opening one, detected as
\* GraphQL
GraphQLExactlyWitness ==
    /\ ReachesDeveloper(detected)
    /\ Cardinality(GraphQLKeywordsIn(TrimSpace(detected.input))) = 2
    /\ ~Occurs(<<"{"," ">>, detected.input)
    /\ ~Occurs(<<"{","\n">>, detected.input)
    /\ detected.format = FormatGraphQL

\* one keyword and braces with nothing after the opening one, not detected as
\* GraphQL
GraphQLExactlyOneKeyword ==
    /\ ReachesDeveloper(detected)
    /\ Cardinality(GraphQLKeywordsIn(TrimSpace(detected.input))) = 1
    /\ Occurs(<<"{">>, detected.input)
    /\ Occurs(<<"}">>, detected.input)
    /\ detected.format # FormatGraphQL

\* what C27 says of a trimmed text
LooksLikeYAML(trimmed) ==
    \/ Occurs(<<"-","-","-">>, trimmed)
    \/ /\ Occurs(<<":">>, trimmed)
       /\ ~Occurs(<<":","/","/">>, trimmed)
       /\ ~Occurs(<<"t","y","p","e","_","u","r","l",":">>, trimmed)
       /\ ~Occurs(<<"v","a","l","u","e",":">>, trimmed)
       /\ (Occurs(<<":"," ">>, trimmed) \/ trimmed[Len(trimmed)] = ":")

\* C27: the YAML test holds exactly when the trimmed text contains "---", or
\* contains a colon, no "://", neither "type_url:" nor "value:", and a colon
\* followed by a space or at its end; it decides the tag of every buffer that
\* reaches it, and a buffer without "---" that contains "value:" or "://" is
\* never YAML.
YAMLExactly ==
    /\ (/\ ReachesConfig(detected)
        /\ ConfigHits(TrimSpace(detected.input)) \cap {1, 2} = {})
       => (detected.format = FormatYAML <=> LooksLikeYAML(TrimSpace(detected.input)))
    /\ (/\ detected.kind = "bytes"
        /\ ~Occurs(<<"-","-","-">>, detected.input)
        /\ (Occurs(<<"v","a","l","u","e",":">>, detected.input) \/ Occurs(<<":","/","/">>, detected.input)))
       => detected.format # FormatYAML

\* a key named value with a colon and a space after it, not detected as YAML
YAMLExactlyWitness ==
    /\ ReachesConfig(detected)
    /\ Occurs(<<"v","a","l","u","e",":"," ">>, TrimSpace(detected.input))
    /\ ~Occurs(<<"-","-","-">>, detected.input)
    /\ ~Occurs(<<":","/","/">>, detected.input)
    /\ ~Occurs(<<"t","y","p","e","_","u","r","l",":">>, detected.input)
    /\ detected.format # FormatYAML

\* the commas of a line, and whether a line is blank
Commas(line) == Cardinality({k \in 1..Len(line) : line[k] = ","})

IsBlank(line) == TrimSpace(line) = << >>

\* what C26 says of a trimmed text
LooksLikeCSV(trimmed) ==
    LET lines == SplitLines(trimmed)
    IN  /\ Occurs(<<",">>, trimmed)
        /\ Len(lines) > 1
        /\ Commas(lines[1]) >= 1
        /\ \A i \in 2..Len(lines) :
              i <= 5 => (IsBlank(lines[i]) \/ Commas(lines[i]) = Commas(lines[1]))

\* C26: the CSV test holds exactly when the trimmed text contains a comma, has
\* more than one line, its first line has a comma, and each of the first 5
\* lines, blank lines excepted, has the comma count of the first line; lines
\* from the sixth on have no influence.  The test decides the tag of every
\* buffer that reaches the data family.
CSVFirstFiveLines ==
    ReachesData(detected) =>
        (detected.format = FormatCSV <=> LooksLikeCSV(TrimSpace(detected.input)))

\* C26, amended: the CSV test holds exactly when the trimmed text contains a
\* comma, has more than one line, its first line has a comma, and each of the
\* first 5 lines that is not empty has the comma count of the first line; a
\* line of white space is not empty and is held to the count; lines from the
\* sixth on have no influence.
CSVFirstFiveLinesEmptyExcepted ==
    ReachesData(detected) =>
        LET trimmed == TrimSpace(detected.input)
            lines == SplitLines(trimmed)
        IN  detected.format = FormatCSV <=>
                /\ Occurs(<<",">>, trimmed)
                /\ Len(lines) > 1
                /\ Commas(lines[1]) >= 1
                /\ \A i \in 2..Len(lines) :
                      i <= 5 => (lines[i] = << >> \/ Commas(lines[i]) = Commas(lines[1]))

\* a buffer detected as CSV that has an empty line among its first five and
\* a sixth line with another comma count
CSVFirstFiveLinesEmptyExceptedWitness ==
    /\ ReachesData(detected)
    /\ detected.format = FormatCSV
    /\ LET lines == SplitLines(TrimSpace(detected.input))
       IN  /\ Len(lines) >= 6
           /\ Commas(lines[6]) # Commas(lines[1])
           /\ lines[6] # << >>
           /\ \E i \in 2..5 : lines[i] = << >>

====
